---- MODULE Spec2Model ----
(***************************************************************************)
(* A model of the Cassandra PV Archiver Python client:                     *)
(*   - ArchiveConfigurationCommands, the batch builder (admin_client.py),  *)
(*   - _encode_uri_part_custom, the tilde escape (admin_client.py),        *)
(*   - AdminClient's two POST operations (admin_client.py).                *)
(* Python values are modelled as tagged records, so that str(), bool() and *)
(* the JSON conversions are computed and not taken as the identity.        *)
(***************************************************************************)
EXTENDS Integers, Sequences, FiniteSets, TLC

VARIABLES
    batch,      \* the ArchiveConfigurationCommands list (a list of dicts)
    call,       \* the last builder call: method, arguments, outcome
    nCalls,     \* history: number of builder calls made
    nOk,        \* history: number of builder calls that returned normally
    uri_part,   \* _encode_uri_part_custom: its argument, a str (code points)
    encoded,    \* _encode_uri_part_custom: its result, ASCII characters
    encPc,      \* _encode_uri_part_custom: "called" or "returned"
    self,       \* the AdminClient: the fields __init__ sets
    archive,    \* the ArchiveClient: the fields __init__ sets
    files,      \* the file system: the contents of each file, by path
    pc,         \* the operation in progress: idle, sent, responded, done
    op,         \* the operation in progress: its name and arguments
    req,        \* the urllib.request.Request built by _req
    resp,       \* the response urlopen gave (or the HTTPError)
    result,     \* how the operation ended: the value returned or raised
    nReq,       \* history: urlopen calls of the operation in progress
    threads     \* concurrent calls on the two clients, one for each thread

builderVars == <<batch, call, nCalls, nOk>>

encoderVars == <<uri_part, encoded, encPc>>

clientVars == <<self, archive, files, pc, op, req, resp, result, nReq>>

threadVars == <<threads>>

vars == <<builderVars, encoderVars, clientVars, threadVars>>

(***************************************************************************)
(* Bounds                                                                  *)
(***************************************************************************)
\* builder calls made on one batch
MaxCalls == 2

\* characters of a string given to _encode_uri_part_custom
MaxStrLen == 2

\* commands in a list given to run_archive_configuration_commands
MaxCommands == 2

(***************************************************************************)
(* Python values.  Every value is a record of one shape: the tag t, and    *)
(* the payload in s (str), i (int, bool as 0/1) or l (list elements, or    *)
(* the key-value pairs of a dict).                                         *)
(***************************************************************************)
Py(t, s, i, l) == [t |-> t, s |-> s, i |-> i, l |-> l]

PyNone == Py("None", "", 0, <<>>)

PyStr(s) == Py("str", s, 0, <<>>)

PyInt(n) == Py("int", "", n, <<>>)

PyBool(b) == Py("bool", "", IF b THEN 1 ELSE 0, <<>>)

PyList(l) == Py("list", "", 0, l)

\* A dict: l holds its <<key, value>> pairs; d.items is a bound method.
PyDict(pairs) == Py("dict", "", 0, pairs)

\* An object whose attribute "items" is itself an iterable of pairs.
PyItemsObj(pairs) == Py("itemsobj", "", 0, pairs)

\* An argument the caller left out of the call.
Omitted == Py("omitted", "", 0, <<>>)

\* The exception a conversion raised, carried in place of its value.
Raised(exc) == Py("raise", exc, 0, <<>>)

IsRaised(v) == v.t = "raise"

Digit == <<"0", "1", "2", "3", "4", "5", "6", "7", "8", "9">>

RECURSIVE NatToStr(_)
NatToStr(n) ==
    IF n < 10 THEN Digit[n + 1]
    ELSE NatToStr(n \div 10) \o Digit[(n % 10) + 1]

\* str(obj) for the scalar objects of the model
str(obj) ==
    CASE obj.t = "str"  -> obj.s
      [] obj.t = "int"  -> IF obj.i < 0 THEN "-" \o NatToStr(-obj.i)
                           ELSE NatToStr(obj.i)
      [] obj.t = "bool" -> IF obj.i = 1 THEN "True" ELSE "False"
      [] obj.t = "None" -> "None"

\* bool(obj)
bool(obj) ==
    CASE obj.t = "None" -> FALSE
      [] obj.t = "bool" -> obj.i = 1
      [] obj.t = "int"  -> obj.i # 0
      [] obj.t = "str"  -> obj.s # ""
      [] OTHER          -> Len(obj.l) > 0

(***************************************************************************)
(* The three normalisation helpers                                         *)
(***************************************************************************)
_make_str(obj) == IF obj # PyNone THEN PyStr(str(obj)) ELSE PyNone

\* "for key, value in dict_like_obj.items": the attribute is iterated as it
\* is, never called.  For a dict it is a bound method, which is not
\* iterable (TypeError); an object whose items attribute is a collection of
\* pairs is iterated.
_make_str_dict(dict_like_obj) ==
    IF dict_like_obj = PyNone THEN PyNone
    ELSE IF dict_like_obj.t = "itemsobj"
    THEN PyDict([k \in 1..Len(dict_like_obj.l) |->
                    <<PyStr(str(dict_like_obj.l[k][1])),
                      PyStr(str(dict_like_obj.l[k][2]))>>])
    ELSE IF dict_like_obj.t = "dict" THEN Raised("TypeError")
    ELSE Raised("AttributeError")

\* Mutant of _make_str_list: the elements are copied without str().
_make_str_list_unconverted(list_like_obj) ==
    IF list_like_obj = PyNone THEN PyNone
    ELSE IF list_like_obj.t = "list" THEN PyList(list_like_obj.l)
    ELSE Raised("TypeError")

\* "[str(elem) for elem in list_like_obj]": an int or bool is not iterable.
_make_str_list(list_like_obj) ==
    IF list_like_obj = PyNone THEN PyNone
    ELSE IF list_like_obj.t = "list"
    THEN PyList([k \in 1..Len(list_like_obj.l) |->
                    PyStr(str(list_like_obj.l[k]))])
    ELSE Raised("TypeError")

(***************************************************************************)
(* The seven builder methods.  Bind gives an omitted argument the default  *)
(* of the method's signature; X_command is the dict display the method     *)
(* evaluates; Builder is the rest of the method.                           *)
(***************************************************************************)
Bind(a, defaults) ==
    [p \in DOMAIN a |->
        IF a[p] = Omitted THEN defaults[p] ELSE a[p]]

add_channel_defaults ==
    [decimation_levels |-> PyNone,
     decimation_level_to_retention_period |-> PyNone,
     enabled |-> PyBool(TRUE),
     options |-> PyNone]

add_channel_command(a) ==
    LET b == Bind(a, add_channel_defaults) IN
    [channelName |-> _make_str(b.channel_name),
     commandType |-> PyStr("add_channel"),
     controlSystemType |-> _make_str(b.control_system_type),
     decimationLevels |-> _make_str_list(b.decimation_levels),
     decimationLevelToRetentionPeriod |->
         _make_str_dict(b.decimation_level_to_retention_period),
     enabled |-> PyBool(bool(b.enabled)),
     options |-> _make_str_dict(b.options),
     serverId |-> _make_str(b.server_id)]

add_or_update_channel_defaults ==
    [decimation_levels |-> PyNone,
     decimation_level_to_retention_period |-> PyNone,
     enabled |-> PyBool(TRUE),
     options |-> PyNone]

add_or_update_channel_command(a) ==
    LET b == Bind(a, add_or_update_channel_defaults) IN
    [channelName |-> _make_str(b.channel_name),
     commandType |-> PyStr("add_or_update_channel"),
     controlSystemType |-> _make_str(b.control_system_type),
     decimationLevels |-> _make_str_list(b.decimation_levels),
     decimationLevelToRetentionPeriod |->
         _make_str_dict(b.decimation_level_to_retention_period),
     enabled |-> PyBool(bool(b.enabled)),
     options |-> _make_str_dict(b.options),
     serverId |-> _make_str(b.server_id)]

move_channel_defaults == [expected_old_server_id |-> PyNone]

\* Mutant of move_channel_command: a key is left out when its value is None.
move_channel_command_sparse(a) ==
    LET b == Bind(a, move_channel_defaults) IN
    IF b.expected_old_server_id = PyNone
    THEN [channelName |-> _make_str(b.channel_name),
          commandType |-> PyStr("move_channel"),
          newServerId |-> _make_str(b.new_server_id)]
    ELSE [channelName |-> _make_str(b.channel_name),
          commandType |-> PyStr("move_channel"),
          expectedOldServerId |-> _make_str(b.expected_old_server_id),
          newServerId |-> _make_str(b.new_server_id)]

move_channel_command(a) ==
    LET b == Bind(a, move_channel_defaults) IN
    [channelName |-> _make_str(b.channel_name),
     commandType |-> PyStr("move_channel"),
     expectedOldServerId |-> _make_str(b.expected_old_server_id),
     newServerId |-> _make_str(b.new_server_id)]

refresh_channel_command(a) ==
    [channelName |-> _make_str(a.channel_name),
     commandType |-> PyStr("refresh_channel"),
     serverId |-> _make_str(a.server_id)]

remove_channel_defaults == [expected_server_id |-> PyNone]

remove_channel_command(a) ==
    LET b == Bind(a, remove_channel_defaults) IN
    [channelName |-> _make_str(b.channel_name),
     commandType |-> PyStr("remove_channel"),
     expectedServerId |-> _make_str(b.expected_server_id)]

rename_channel_defaults == [expected_server_id |-> PyNone]

rename_channel_command(a) ==
    LET b == Bind(a, rename_channel_defaults) IN
    [commandType |-> PyStr("rename_channel"),
     expectedServerId |-> _make_str(b.expected_server_id),
     newChannelName |-> _make_str(b.new_channel_name),
     oldChannelName |-> _make_str(b.old_channel_name)]

update_channel_defaults ==
    [add_decimation_levels |-> PyNone,
     add_options |-> PyNone,
     decimation_levels |-> PyNone,
     decimation_level_to_retention_period |-> PyNone,
     enabled |-> PyNone,
     expected_control_system_type |-> PyNone,
     expected_server_id |-> PyNone,
     options |-> PyNone,
     remove_decimation_levels |-> PyNone,
     remove_options |-> PyNone]

\* Mutant of update_channel_command: enabled is coerced as in add_channel.
update_channel_command_coerced(a) ==
    LET b == Bind(a, update_channel_defaults) IN
    [addDecimationLevels |-> _make_str_list(b.add_decimation_levels),
     addOptions |-> _make_str_dict(b.add_options),
     channelName |-> _make_str(b.channel_name),
     commandType |-> PyStr("update_channel"),
     decimationLevels |-> _make_str_list(b.decimation_levels),
     decimationLevelToRetentionPeriod |->
         _make_str_dict(b.decimation_level_to_retention_period),
     enabled |-> PyBool(bool(b.enabled)),
     expectedControlSystemType |->
         _make_str(b.expected_control_system_type),
     expectedServerId |-> _make_str(b.expected_server_id),
     options |-> _make_str_dict(b.options),
     removeDecimationLevels |-> _make_str_list(b.remove_decimation_levels),
     removeOptions |-> _make_str_list(b.remove_options)]

update_channel_command(a) ==
    LET b == Bind(a, update_channel_defaults) IN
    [addDecimationLevels |-> _make_str_list(b.add_decimation_levels),
     addOptions |-> _make_str_dict(b.add_options),
     channelName |-> _make_str(b.channel_name),
     commandType |-> PyStr("update_channel"),
     decimationLevels |-> _make_str_list(b.decimation_levels),
     decimationLevelToRetentionPeriod |->
         _make_str_dict(b.decimation_level_to_retention_period),
     enabled |-> IF b.enabled # PyNone THEN PyBool(bool(b.enabled))
                 ELSE PyNone,
     expectedControlSystemType |->
         _make_str(b.expected_control_system_type),
     expectedServerId |-> _make_str(b.expected_server_id),
     options |-> _make_str_dict(b.options),
     removeDecimationLevels |-> _make_str_list(b.remove_decimation_levels),
     removeOptions |-> _make_str_list(b.remove_options)]

\* Mutant of Builder: the command is appended before its conversions are
\* looked at, so a failing call leaves its partial command in the list.
Builder_partial(method, a, command) ==
    IF \E k \in DOMAIN command : IsRaised(command[k])
    THEN [batch |-> Append(batch, command),
          nOk |-> nOk,
          call |-> [method |-> method, args |-> a, outcome |-> "raise"]]
    ELSE [batch |-> Append(batch, command),
          nOk |-> nOk + 1,
          call |-> [method |-> method, args |-> a, outcome |-> "ok"]]

\* Mutant of Builder: the command is inserted at the front of the list.
Builder_front(method, a, command) ==
    IF \E k \in DOMAIN command : IsRaised(command[k])
    THEN [batch |-> batch,
          nOk |-> nOk,
          call |-> [method |-> method, args |-> a, outcome |-> "raise"]]
    ELSE [batch |-> <<command>> \o batch,
          nOk |-> nOk + 1,
          call |-> [method |-> method, args |-> a, outcome |-> "ok"]]

\* The rest of a builder method, as the values it leaves behind.  The dict
\* display is evaluated first: an exception of a conversion leaves the
\* method before self.append(command) is reached.
Builder(method, a, command) ==
    IF \E k \in DOMAIN command : IsRaised(command[k])
    THEN [batch |-> batch,
          nOk |-> nOk,
          call |-> [method |-> method, args |-> a, outcome |-> "raise"]]
    ELSE [batch |-> Append(batch, command),
          nOk |-> nOk + 1,
          call |-> [method |-> method, args |-> a, outcome |-> "ok"]]

add_channel(a) ==
    LET r == Builder("add_channel", a, add_channel_command(a)) IN
    /\ nCalls < MaxCalls
    /\ nCalls' = nCalls + 1
    /\ batch' = r.batch
    /\ call' = r.call
    /\ nOk' = r.nOk
    /\ UNCHANGED <<encoderVars, clientVars, threadVars>>

add_or_update_channel(a) ==
    LET r == Builder("add_or_update_channel", a, add_or_update_channel_command(a)) IN
    /\ nCalls < MaxCalls
    /\ nCalls' = nCalls + 1
    /\ batch' = r.batch
    /\ call' = r.call
    /\ nOk' = r.nOk
    /\ UNCHANGED <<encoderVars, clientVars, threadVars>>

move_channel(a) ==
    LET r == Builder("move_channel", a, move_channel_command(a)) IN
    /\ nCalls < MaxCalls
    /\ nCalls' = nCalls + 1
    /\ batch' = r.batch
    /\ call' = r.call
    /\ nOk' = r.nOk
    /\ UNCHANGED <<encoderVars, clientVars, threadVars>>

refresh_channel(a) ==
    LET r == Builder("refresh_channel", a, refresh_channel_command(a)) IN
    /\ nCalls < MaxCalls
    /\ nCalls' = nCalls + 1
    /\ batch' = r.batch
    /\ call' = r.call
    /\ nOk' = r.nOk
    /\ UNCHANGED <<encoderVars, clientVars, threadVars>>

remove_channel(a) ==
    LET r == Builder("remove_channel", a, remove_channel_command(a)) IN
    /\ nCalls < MaxCalls
    /\ nCalls' = nCalls + 1
    /\ batch' = r.batch
    /\ call' = r.call
    /\ nOk' = r.nOk
    /\ UNCHANGED <<encoderVars, clientVars, threadVars>>

rename_channel(a) ==
    LET r == Builder("rename_channel", a, rename_channel_command(a)) IN
    /\ nCalls < MaxCalls
    /\ nCalls' = nCalls + 1
    /\ batch' = r.batch
    /\ call' = r.call
    /\ nOk' = r.nOk
    /\ UNCHANGED <<encoderVars, clientVars, threadVars>>

update_channel(a) ==
    LET r == Builder("update_channel", a, update_channel_command(a)) IN
    /\ nCalls < MaxCalls
    /\ nCalls' = nCalls + 1
    /\ batch' = r.batch
    /\ call' = r.call
    /\ nOk' = r.nOk
    /\ UNCHANGED <<encoderVars, clientVars, threadVars>>

(***************************************************************************)
(* The calls the model makes.  A call starts from the method's base call   *)
(* (the required arguments, every optional argument omitted) and changes   *)
(* one argument; one further call per method supplies all of them.         *)
(***************************************************************************)
Variations(base, alts) ==
    {base} \cup
    UNION {{[base EXCEPT ![p] = v] : v \in alts[p]} : p \in DOMAIN alts}

RequiredAlts == {PyInt(7)}

OptionalAlts == {PyNone, PyStr("srv-2")}

ListAlts ==
    {PyNone, PyList(<<>>),
     PyList(<<PyInt(30), PyInt(0), PyStr("900")>>), PyInt(5)}

DictAlts ==
    {PyNone, PyDict(<<<<PyInt(30), PyInt(3600)>>>>),
     PyItemsObj(<<<<PyInt(30), PyInt(3600)>>>>)}

EnabledAlts == {PyNone, PyBool(TRUE), PyBool(FALSE), PyInt(0), PyStr("no")}

AddChannelArgs ==
    Variations(
        [channel_name |-> PyStr("ch1"),
         control_system_type |-> PyStr("channel_access"),
         server_id |-> PyStr("srv-1"),
         decimation_levels |-> Omitted,
         decimation_level_to_retention_period |-> Omitted,
         enabled |-> Omitted,
         options |-> Omitted],
        [channel_name |-> RequiredAlts,
         control_system_type |-> RequiredAlts,
         server_id |-> RequiredAlts,
         decimation_levels |-> ListAlts,
         decimation_level_to_retention_period |-> DictAlts,
         enabled |-> EnabledAlts,
         options |-> DictAlts])
    \cup
    {[channel_name |-> PyStr("ch2"),
      control_system_type |-> PyStr("channel_access"),
      server_id |-> PyInt(7),
      decimation_levels |-> PyList(<<PyInt(5), PyInt(0)>>),
      decimation_level_to_retention_period |->
          PyItemsObj(<<<<PyInt(5), PyInt(86400)>>>>),
      enabled |-> PyBool(FALSE),
      options |-> PyItemsObj(<<<<PyStr("deadband"), PyInt(2)>>>>)]}

MoveChannelArgs ==
    Variations(
        [channel_name |-> PyStr("ch1"),
         new_server_id |-> PyStr("srv-1"),
         expected_old_server_id |-> Omitted],
        [channel_name |-> RequiredAlts,
         new_server_id |-> RequiredAlts,
         expected_old_server_id |-> OptionalAlts])

RefreshChannelArgs ==
    Variations(
        [channel_name |-> PyStr("ch1"), server_id |-> PyStr("srv-1")],
        [channel_name |-> RequiredAlts, server_id |-> RequiredAlts])

RemoveChannelArgs ==
    Variations(
        [channel_name |-> PyStr("ch1"), expected_server_id |-> Omitted],
        [channel_name |-> RequiredAlts, expected_server_id |-> OptionalAlts])

RenameChannelArgs ==
    Variations(
        [new_channel_name |-> PyStr("ch2"),
         old_channel_name |-> PyStr("ch1"),
         expected_server_id |-> Omitted],
        [new_channel_name |-> RequiredAlts,
         old_channel_name |-> RequiredAlts,
         expected_server_id |-> OptionalAlts])

UpdateChannelArgs ==
    Variations(
        [channel_name |-> PyStr("ch1"),
         add_decimation_levels |-> Omitted,
         add_options |-> Omitted,
         decimation_levels |-> Omitted,
         decimation_level_to_retention_period |-> Omitted,
         enabled |-> Omitted,
         expected_control_system_type |-> Omitted,
         expected_server_id |-> Omitted,
         options |-> Omitted,
         remove_decimation_levels |-> Omitted,
         remove_options |-> Omitted],
        [channel_name |-> RequiredAlts,
         add_decimation_levels |-> ListAlts,
         add_options |-> DictAlts,
         decimation_levels |-> ListAlts,
         decimation_level_to_retention_period |-> DictAlts,
         enabled |-> EnabledAlts,
         expected_control_system_type |-> OptionalAlts,
         expected_server_id |-> OptionalAlts,
         options |-> DictAlts,
         remove_decimation_levels |-> ListAlts,
         remove_options |-> ListAlts])
    \cup
    {[channel_name |-> PyStr("ch2"),
      add_decimation_levels |-> PyList(<<PyInt(5)>>),
      add_options |-> PyItemsObj(<<<<PyStr("deadband"), PyInt(2)>>>>),
      decimation_levels |-> PyNone,
      decimation_level_to_retention_period |->
          PyItemsObj(<<<<PyInt(5), PyInt(86400)>>>>),
      enabled |-> PyBool(FALSE),
      expected_control_system_type |-> PyStr("channel_access"),
      expected_server_id |-> PyInt(7),
      options |-> PyNone,
      remove_decimation_levels |-> PyList(<<PyInt(30), PyInt(900)>>),
      remove_options |-> PyList(<<PyStr("b"), PyStr("a")>>)]}

(***************************************************************************)
(* The batch builder as a state machine                                    *)
(***************************************************************************)
\* ArchiveConfigurationCommands(): an empty list
NextBuilder ==
    \/ \E a \in AddChannelArgs : add_channel(a)
    \/ \E a \in AddChannelArgs : add_or_update_channel(a)
    \/ \E a \in MoveChannelArgs : move_channel(a)
    \/ \E a \in RefreshChannelArgs : refresh_channel(a)
    \/ \E a \in RemoveChannelArgs : remove_channel(a)
    \/ \E a \in RenameChannelArgs : rename_channel(a)
    \/ \E a \in UpdateChannelArgs : update_channel(a)

(***************************************************************************)
(* _encode_uri_part_custom.  A str is a sequence of code points, bytes and *)
(* ASCII characters are their numbers.                                     *)
(***************************************************************************)
\* One code point as UTF-8, as uri_part.encode('utf_8') produces it.
utf_8_char(cp) ==
    IF cp < 128 THEN <<cp>>
    ELSE IF cp < 2048 THEN <<192 + (cp \div 64), 128 + (cp % 64)>>
    ELSE IF cp < 65536
    THEN <<224 + (cp \div 4096), 128 + ((cp \div 64) % 64), 128 + (cp % 64)>>
    ELSE <<240 + (cp \div 262144), 128 + ((cp \div 4096) % 64),
           128 + ((cp \div 64) % 64), 128 + (cp % 64)>>

RECURSIVE utf_8(_)
utf_8(string) ==
    IF string = <<>> THEN <<>>
    ELSE utf_8_char(Head(string)) \o utf_8(Tail(string))

\* Mutant of encode_byte: the hexadecimal digits above 9 in lower case.
encode_byte_lower(b) ==
    IF \/ b = 45 \/ b = 95 \/ (48 <= b /\ b <= 57)
       \/ (65 <= b /\ b <= 90) \/ (97 <= b /\ b <= 122)
    THEN <<b>>
    ELSE LET high == b \div 16
             low == b % 16
             high_b == IF high < 10 THEN 48 + high ELSE 87 + high
             low_b == IF low < 10 THEN 48 + low ELSE 87 + low
         IN  <<126, high_b, low_b>>

\* Mutant of encode_byte: the tilde passes through like a letter.
encode_byte_tilde(b) ==
    IF \/ b = 45 \/ b = 95 \/ b = 126 \/ (48 <= b /\ b <= 57)
       \/ (65 <= b /\ b <= 90) \/ (97 <= b /\ b <= 122)
    THEN <<b>>
    ELSE LET high == b \div 16
             low == b % 16
             high_b == IF high < 10 THEN 48 + high ELSE 55 + high
             low_b == IF low < 10 THEN 48 + low ELSE 55 + low
         IN  <<126, high_b, low_b>>

\* The body of the loop "for b in bin_data": what one byte appends.
encode_byte(b) ==
    IF \/ b = 45 \/ b = 95 \/ (48 <= b /\ b <= 57)
       \/ (65 <= b /\ b <= 90) \/ (97 <= b /\ b <= 122)
    THEN <<b>>
    ELSE LET high == b \div 16
             low == b % 16
             high_b == IF high < 10 THEN 48 + high ELSE 55 + high
             low_b == IF low < 10 THEN 48 + low ELSE 55 + low
         IN  <<126, high_b, low_b>>

RECURSIVE encode_bytes(_)
encode_bytes(bin_data) ==
    IF bin_data = <<>> THEN <<>>
    ELSE encode_byte(Head(bin_data)) \o encode_bytes(Tail(bin_data))

_encode_uri_part_custom(string) == encode_bytes(utf_8(string))

\* The strings the model encodes: every string of at most MaxStrLen
\* characters over EdgeChars (the ends of each class of bytes, and code
\* points of every UTF-8 length), and every one-character string below
\* U+0100.
EdgeChars ==
    {0, 32, 37, 45, 46, 47, 48, 57, 58, 64, 65, 90, 91, 95, 96, 97, 122,
     123, 126, 127, 128, 233, 2047, 2048, 8364, 65535, 65536, 128512,
     1114111}

Strings ==
    UNION {[1..n -> EdgeChars] : n \in 0..MaxStrLen}
    \cup {<<cp>> : cp \in 0..255}

EncodeUriPart ==
    /\ encPc = "called"
    /\ encoded' = _encode_uri_part_custom(uri_part)
    /\ encPc' = "returned"
    /\ UNCHANGED <<uri_part, builderVars, clientVars, threadVars>>

NextEncoder == EncodeUriPart

(***************************************************************************)
(* AdminClient: construction and requests.  A str that is encoded or       *)
(* compared byte by byte (username, password) is a sequence of code        *)
(* points; any other str is a string.                                      *)
(***************************************************************************)
PyBytes(bytes) == Py("bytes", "", 0, bytes)

\* JSON values, as json.dumps writes them and json.load reads them.
J(j, s, i, l) == [j |-> j, s |-> s, i |-> i, l |-> l]

JNull == J("null", "", 0, <<>>)

JString(s) == J("string", s, 0, <<>>)

JBool(b) == J("bool", "", IF b THEN 1 ELSE 0, <<>>)

JNumber(n) == J("number", "", n, <<>>)

JArray(l) == J("array", "", 0, l)

JObject(pairs) == J("object", "", 0, pairs)

\* json.dumps of a value of the model
RECURSIVE ToJson(_)
ToJson(v) ==
    CASE v.t = "None" -> JNull
      [] v.t = "str"  -> JString(v.s)
      [] v.t = "bool" -> JBool(v.i = 1)
      [] v.t = "int"  -> JNumber(v.i)
      [] v.t = "list" -> JArray([k \in 1..Len(v.l) |-> ToJson(v.l[k])])
      [] v.t = "dict" ->
            JObject([k \in 1..Len(v.l) |->
                        <<JString(str(v.l[k][1])), ToJson(v.l[k][2])>>])

\* json.load of a JSON value
RECURSIVE FromJson(_)
FromJson(j) ==
    CASE j.j = "null"   -> PyNone
      [] j.j = "string" -> PyStr(j.s)
      [] j.j = "bool"   -> PyBool(j.i = 1)
      [] j.j = "number" -> PyInt(j.i)
      [] j.j = "array"  -> PyList([k \in 1..Len(j.l) |-> FromJson(j.l[k])])
      [] j.j = "object" ->
            PyDict([k \in 1..Len(j.l) |->
                       <<PyStr(j.l[k][1].s), FromJson(j.l[k][2])>>])

\* a dict with str keys, written and read field by field
DumpDict(d) == [k \in DOMAIN d |-> ToJson(d[k])]

LoadDict(o) == [k \in DOMAIN o |-> FromJson(o[k])]

B64Chars ==
    <<"A", "B", "C", "D", "E", "F", "G", "H", "I", "J", "K", "L", "M",
      "N", "O", "P", "Q", "R", "S", "T", "U", "V", "W", "X", "Y", "Z",
      "a", "b", "c", "d", "e", "f", "g", "h", "i", "j", "k", "l", "m",
      "n", "o", "p", "q", "r", "s", "t", "u", "v", "w", "x", "y", "z",
      "0", "1", "2", "3", "4", "5", "6", "7", "8", "9", "+", "/">>

\* base64.b64encode(bytes).decode(encoding='ascii')
RECURSIVE b64encode(_)
b64encode(bytes) ==
    IF Len(bytes) = 0 THEN ""
    ELSE IF Len(bytes) = 1
    THEN B64Chars[(bytes[1] \div 4) + 1]
         \o B64Chars[((bytes[1] % 4) * 16) + 1] \o "=="
    ELSE IF Len(bytes) = 2
    THEN B64Chars[(bytes[1] \div 4) + 1]
         \o B64Chars[((bytes[1] % 4) * 16) + (bytes[2] \div 16) + 1]
         \o B64Chars[((bytes[2] % 16) * 4) + 1] \o "="
    ELSE B64Chars[(bytes[1] \div 4) + 1]
         \o B64Chars[((bytes[1] % 4) * 16) + (bytes[2] \div 16) + 1]
         \o B64Chars[((bytes[2] % 16) * 4) + (bytes[3] \div 64) + 1]
         \o B64Chars[(bytes[3] % 64) + 1]
         \o b64encode(SubSeq(bytes, 4, Len(bytes)))

\* 'Basic ' + b64encode('{0}:{1}'.format(username, password).encode())
_generate_auth_header(username, password) ==
    "Basic " \o b64encode(utf_8(username \o <<58>> \o password))

AdminClient__init__(server_name, server_port, username, password) ==
    [_protocol_version |-> "1.0",
     _base_url |-> "http://" \o server_name \o ":" \o NatToStr(server_port)
                   \o "/admin/api/" \o "1.0",
     _username |-> username,
     _password |-> password,
     _auth_header |-> _generate_auth_header(username, password)]

\* The headers of a request, by name.
Header(name, value) == name :> value

\* "data=None": a request without a body
NoData == [none |-> PyNone]

\* Mutant of JsonDumps: the commands are written last first.
JsonDumps_reversed(data) ==
    IF "commands" \in DOMAIN data
    THEN [commands |->
             [k \in 1..Len(data.commands) |->
                 DumpDict(data.commands[Len(data.commands) + 1 - k])]]
    ELSE DumpDict(data)

\* json.dumps(data) of the two data objects the client sends: the dict of
\* import_server_configuration, and {'commands': commands}.
JsonDumps(data) ==
    IF "commands" \in DOMAIN data
    THEN [commands |->
             [k \in 1..Len(data.commands) |-> DumpDict(data.commands[k])]]
    ELSE DumpDict(data)

\* Mutant of AdminClient_req: the Authorization header is set on every
\* request.
AdminClient_req_credentials(this, url, data, method, authenticate) ==
    LET req_url == this._base_url \o url
        has_data == "none" \notin DOMAIN data
        req_data == IF has_data THEN JsonDumps(data) ELSE NoData
        req_headers ==
            (IF has_data
             THEN Header("Content-Type", "application/json;charset=UTF-8")
             ELSE <<>>)
            @@ Header("Authorization", this._auth_header)
            @@ Header("Accept", "application/json")
            @@ Header("Accept-Encoding", "gzip")
    IN  [url |-> req_url, data |-> req_data, headers |-> req_headers,
         method |-> method]

\* _req with its self as a parameter
AdminClient_req(this, url, data, method, authenticate) ==
    LET req_url == this._base_url \o url
        has_data == "none" \notin DOMAIN data
        req_data == IF has_data THEN JsonDumps(data) ELSE NoData
        req_headers ==
            (IF has_data
             THEN Header("Content-Type", "application/json;charset=UTF-8")
             ELSE <<>>)
            @@ (IF authenticate
                THEN Header("Authorization", this._auth_header)
                ELSE <<>>)
            @@ Header("Accept", "application/json")
            @@ Header("Accept-Encoding", "gzip")
    IN  [url |-> req_url, data |-> req_data, headers |-> req_headers,
         method |-> method]

\* self._req(...) of the AdminClient
_req(url, data, method, authenticate) ==
    AdminClient_req(self, url, data, method, authenticate)

(***************************************************************************)
(* ArchiveClient: construction and requests.  Its helpers are copies of    *)
(* those of AdminClient; it has no credentials.                            *)
(***************************************************************************)
ArchiveClient__init__(server_name, server_port) ==
    [_protocol_version |-> "1.0",
     _base_url |-> "http://" \o server_name \o ":" \o NatToStr(server_port)
                   \o "/archive-access/api/" \o "1.0"]

ArchiveClient_req(this, url, data, method, authenticate) ==
    LET req_url == this._base_url \o url
        has_data == "none" \notin DOMAIN data
        req_data == IF has_data THEN JsonDumps(data) ELSE NoData
        req_headers ==
            (IF has_data
             THEN Header("Content-Type", "application/json;charset=UTF-8")
             ELSE <<>>)
            @@ (IF authenticate
                THEN Header("Authorization", this._auth_header)
                ELSE <<>>)
            @@ Header("Accept", "application/json")
            @@ Header("Accept-Encoding", "gzip")
    IN  [url |-> req_url, data |-> req_data, headers |-> req_headers,
         method |-> method]

(***************************************************************************)
(* Responses.  The Content-Type header is kept as its segments between     *)
(* ';', each as split('=', 1) leaves it; the body is kept as the JSON      *)
(* document it holds (or none), its character encoding and whether it is   *)
(* gzip-compressed.                                                        *)
(***************************************************************************)
Raise(exc, arg) == [kind |-> "raise", exc |-> exc, arg |-> arg, value |-> <<>>]

Return(value) == [kind |-> "return", exc |-> "", arg |-> PyNone, value |-> value]

\* Returns <<content_type, charset>> as a value, or the exception:
\* resp.headers.get('Content-Type', None) is None when the header is
\* missing, and None has no split.
_get_content_type_and_charset(r) ==
    IF ~r.content_type.present
    THEN Raise("AttributeError", PyStr("split"))
    ELSE LET content_type_header == r.content_type.segments
             hits == {k \in 2..Len(content_type_header) :
                         content_type_header[k][1] = "charset"}
             last == CHOOSE k \in hits : \A n \in hits : n <= k
             charset ==
                 IF hits = {} THEN PyNone
                 ELSE IF Len(content_type_header[last]) = 2
                 THEN PyStr(content_type_header[last][2])
                 ELSE PyNone
         IN  Return([content_type |-> content_type_header[1][1],
                     charset |-> charset])

\* json.load of a response document
LoadDoc(doc) ==
    [keys |-> doc.keys,
     errorMessage |-> FromJson(doc.errorMessage),
     results |->
         [k \in 1..Len(doc.results) |->
             [command |-> LoadDict(doc.results[k].command),
              errorMessage |-> FromJson(doc.results[k].errorMessage),
              success |-> FromJson(doc.results[k].success)]],
     rest |-> LoadDict(doc.rest)]

\* Mutant of _get_resp_data: the content type is not looked at.
_get_resp_data_any_type(r) ==
    LET h == _get_content_type_and_charset(r) IN
    IF h.kind = "raise" THEN h
    ELSE LET charset == IF h.value.charset = PyNone THEN "utf_8"
                        ELSE h.value.charset.s
             content_encoding == r.content_encoding
         IN  IF content_encoding = PyStr("gzip") /\ ~r.body.gzipped
             THEN Raise("OSError", PyStr("Not a gzipped file"))
             ELSE IF content_encoding # PyStr("gzip") /\ r.body.gzipped
             THEN Raise("ValueError", PyStr("cannot decode"))
             ELSE IF r.body.charset # charset
             THEN Raise("ValueError", PyStr("cannot decode"))
             ELSE IF ~r.body.doc.valid
             THEN Raise("ValueError", PyStr("cannot parse"))
             ELSE Return(LoadDoc(r.body.doc))

_get_resp_data(r) ==
    LET h == _get_content_type_and_charset(r) IN
    IF h.kind = "raise" THEN h
    ELSE IF h.value.content_type # "application/json"
    THEN Raise("Exception",
               PyStr("Expected content-type application/json, but got "
                     \o h.value.content_type \o "."))
    ELSE LET charset == IF h.value.charset = PyNone THEN "utf_8"
                        ELSE h.value.charset.s
             content_encoding == r.content_encoding
         IN  IF content_encoding = PyStr("gzip") /\ ~r.body.gzipped
             THEN Raise("OSError", PyStr("Not a gzipped file"))
             ELSE IF content_encoding # PyStr("gzip") /\ r.body.gzipped
             THEN Raise("ValueError", PyStr("cannot decode"))
             ELSE IF r.body.charset # charset
             THEN Raise("ValueError", PyStr("cannot decode"))
             ELSE IF ~r.body.doc.valid
             THEN Raise("ValueError", PyStr("cannot parse"))
             ELSE Return(LoadDoc(r.body.doc))

_is_success_code(status_code) == (status_code >= 200) /\ (status_code < 300)

\* The part of a POST operation after the status code is accepted, with
\* the value the operation returns from resp_data.
\* Mutant of run_archive_configuration_commands_result: a top-level
\* errorMessage is not looked at.
run_archive_configuration_commands_result_unchecked(r) ==
    LET status_code == r.code
        d == _get_resp_data(r)
    IN  IF status_code = 403
        THEN Raise("Exception", PyStr("Authentication error"))
        ELSE IF status_code # 500 /\ ~_is_success_code(status_code)
        THEN Raise("Exception",
                   PyStr("Request failed with status code "
                         \o NatToStr(status_code)))
        ELSE IF d.kind = "raise" THEN d
        ELSE IF "results" \notin d.value.keys
        THEN Raise("KeyError", PyStr("results"))
        ELSE Return(d.value.results)

\* Mutant of run_archive_configuration_commands_result: the results whose
\* success is false are left out.
run_archive_configuration_commands_result_filtered(r) ==
    LET status_code == r.code
        d == _get_resp_data(r)
    IN  IF status_code = 403
        THEN Raise("Exception", PyStr("Authentication error"))
        ELSE IF status_code # 500 /\ ~_is_success_code(status_code)
        THEN Raise("Exception",
                   PyStr("Request failed with status code "
                         \o NatToStr(status_code)))
        ELSE IF d.kind = "raise" THEN d
        ELSE IF "errorMessage" \in d.value.keys
                /\ d.value.errorMessage # PyNone
        THEN Raise("Exception", d.value.errorMessage)
        ELSE IF "results" \notin d.value.keys
        THEN Raise("KeyError", PyStr("results"))
        ELSE Return(SelectSeq(d.value.results,
                              LAMBDA x : x.success = PyBool(TRUE)))

\* Mutant of run_archive_configuration_commands_result: a 500 is a
\* status-code failure like a 404.
run_archive_configuration_commands_result_strict(r) ==
    LET status_code == r.code
        d == _get_resp_data(r)
        parsed ==
            IF d.kind = "raise" THEN d
            ELSE IF "errorMessage" \in d.value.keys
                    /\ d.value.errorMessage # PyNone
            THEN Raise("Exception", d.value.errorMessage)
            ELSE IF "results" \notin d.value.keys
            THEN Raise("KeyError", PyStr("results"))
            ELSE Return(d.value.results)
    IN  IF status_code = 403
        THEN Raise("Exception", PyStr("Authentication error"))
        ELSE IF status_code = 400
        THEN LET error_message ==
                     IF d.kind = "raise" THEN PyNone
                     ELSE IF "errorMessage" \in d.value.keys
                     THEN d.value.errorMessage
                     ELSE PyNone
             IN  Raise("Exception",
                       IF bool(error_message) THEN error_message
                       ELSE PyStr("Malformed request. Check the input parameters"))
        ELSE IF status_code = 503
        THEN Raise("Exception", PyStr("Service currently not available"))
        ELSE IF ~_is_success_code(status_code)
        THEN Raise("Exception",
                   PyStr("Request failed with status code "
                         \o NatToStr(status_code)))
        ELSE parsed

\* Mutant of run_archive_configuration_commands_result: on a 400 the
\* exception of _get_resp_data is not caught.
run_archive_configuration_commands_result_unguarded(r) ==
    LET status_code == r.code
        d == _get_resp_data(r)
        parsed ==
            IF d.kind = "raise" THEN d
            ELSE IF "errorMessage" \in d.value.keys
                    /\ d.value.errorMessage # PyNone
            THEN Raise("Exception", d.value.errorMessage)
            ELSE IF "results" \notin d.value.keys
            THEN Raise("KeyError", PyStr("results"))
            ELSE Return(d.value.results)
    IN  IF status_code = 403
        THEN Raise("Exception", PyStr("Authentication error"))
        ELSE IF status_code = 400
        THEN IF d.kind = "raise" THEN d
             ELSE LET error_message ==
                          IF "errorMessage" \in d.value.keys
                          THEN d.value.errorMessage
                          ELSE PyNone
                  IN  Raise("Exception",
                            IF bool(error_message) THEN error_message
                            ELSE PyStr("Malformed request. Check the input parameters"))
        ELSE IF status_code = 500 THEN parsed
        ELSE IF status_code = 503
        THEN Raise("Exception", PyStr("Service currently not available"))
        ELSE IF ~_is_success_code(status_code)
        THEN Raise("Exception",
                   PyStr("Request failed with status code "
                         \o NatToStr(status_code)))
        ELSE parsed

\* run_archive_configuration_commands, from "status_code = resp.code" on
run_archive_configuration_commands_result(r) ==
    LET status_code == r.code
        d == _get_resp_data(r)
        parsed ==
            IF d.kind = "raise" THEN d
            ELSE IF "errorMessage" \in d.value.keys
                    /\ d.value.errorMessage # PyNone
            THEN Raise("Exception", d.value.errorMessage)
            ELSE IF "results" \notin d.value.keys
            THEN Raise("KeyError", PyStr("results"))
            ELSE Return(d.value.results)
    IN  IF status_code = 403
        THEN Raise("Exception", PyStr("Authentication error"))
        ELSE IF status_code = 400
        THEN LET error_message ==
                     IF d.kind = "raise" THEN PyNone
                     ELSE IF "errorMessage" \in d.value.keys
                     THEN d.value.errorMessage
                     ELSE PyNone
             IN  Raise("Exception",
                       IF bool(error_message) THEN error_message
                       ELSE PyStr("Malformed request. Check the input parameters"))
        ELSE IF status_code = 500 THEN parsed
        ELSE IF status_code = 503
        THEN Raise("Exception", PyStr("Service currently not available"))
        ELSE IF ~_is_success_code(status_code)
        THEN Raise("Exception",
                   PyStr("Request failed with status code "
                         \o NatToStr(status_code)))
        ELSE parsed

\* Mutant of import_server_configuration_result: a 403 is not told from
\* the other status codes.
import_server_configuration_result_no_forbidden(r) ==
    LET status_code == r.code
        d == _get_resp_data(r)
        parsed ==
            IF d.kind = "raise" THEN d
            ELSE IF "errorMessage" \in d.value.keys
                    /\ d.value.errorMessage # PyNone
            THEN Raise("Exception", d.value.errorMessage)
            ELSE Return(d.value)
    IN  IF status_code = 400
        THEN LET error_message ==
                     IF d.kind = "raise" THEN PyNone
                     ELSE IF "errorMessage" \in d.value.keys
                     THEN d.value.errorMessage
                     ELSE PyNone
             IN  Raise("Exception",
                       IF bool(error_message) THEN error_message
                       ELSE PyStr("Malformed request. Check the input parameters"))
        ELSE IF status_code = 500 THEN parsed
        ELSE IF status_code = 503
        THEN Raise("Exception", PyStr("Service currently not available"))
        ELSE IF ~_is_success_code(status_code)
        THEN Raise("Exception",
                   PyStr("Request failed with status code "
                         \o NatToStr(status_code)))
        ELSE parsed

\* import_server_configuration, from "status_code = resp.code" on
import_server_configuration_result(r) ==
    LET status_code == r.code
        d == _get_resp_data(r)
        parsed ==
            IF d.kind = "raise" THEN d
            ELSE IF "errorMessage" \in d.value.keys
                    /\ d.value.errorMessage # PyNone
            THEN Raise("Exception", d.value.errorMessage)
            ELSE Return(d.value)
    IN  IF status_code = 403
        THEN Raise("Exception", PyStr("Authentication error"))
        ELSE IF status_code = 400
        THEN LET error_message ==
                     IF d.kind = "raise" THEN PyNone
                     ELSE IF "errorMessage" \in d.value.keys
                     THEN d.value.errorMessage
                     ELSE PyNone
             IN  Raise("Exception",
                       IF bool(error_message) THEN error_message
                       ELSE PyStr("Malformed request. Check the input parameters"))
        ELSE IF status_code = 500 THEN parsed
        ELSE IF status_code = 503
        THEN Raise("Exception", PyStr("Service currently not available"))
        ELSE IF ~_is_success_code(status_code)
        THEN Raise("Exception",
                   PyStr("Request failed with status code "
                         \o NatToStr(status_code)))
        ELSE parsed

(***************************************************************************)
(* The server.  Any status code, Content-Type, Content-Encoding and body   *)
(* may come back.  A body that is a JSON document of the protocol is an    *)
(* object: a general problem is reported in errorMessage, and the answer   *)
(* to a list of commands is "results", one element for each command in     *)
(* the order of the commands, each with command, errorMessage and success. *)
(***************************************************************************)
StatusCodes == {199, 200, 299, 300, 400, 403, 404, 500, 503}

ContentTypes ==
    {[present |-> FALSE, segments |-> <<>>],
     [present |-> TRUE, segments |-> << <<"application/json">> >>],
     [present |-> TRUE,
      segments |-> << <<"application/json">>, <<"charset", "utf_16">> >>],
     [present |-> TRUE, segments |-> << <<"text/html">> >>]}

Transfers ==
    {[content_encoding |-> PyNone, gzipped |-> FALSE, charset |-> "utf_8"],
     [content_encoding |-> PyStr("gzip"), gzipped |-> TRUE,
      charset |-> "utf_8"],
     [content_encoding |-> PyNone, gzipped |-> TRUE, charset |-> "utf_8"],
     [content_encoding |-> PyNone, gzipped |-> FALSE, charset |-> "utf_16"]}

Doc(valid, keys, errorMessage, results, rest) ==
    [valid |-> valid, keys |-> keys, errorMessage |-> errorMessage,
     results |-> results, rest |-> rest]

\* a body that is not a JSON document
NoDoc == Doc(FALSE, {}, JNull, <<>>, <<>>)

ErrorMessages ==
    {[keys |-> {}, value |-> JNull],
     [keys |-> {"errorMessage"}, value |-> JNull],
     [keys |-> {"errorMessage"}, value |-> JString("Database not available")],
     [keys |-> {"errorMessage"}, value |-> JString("")]}

\* The results of the commands of a request, the k-th failing unless ok[k].
CommandResults(commands, ok) ==
    [k \in 1..Len(commands) |->
        [command |-> commands[k],
         errorMessage |-> IF ok[k] THEN JNull
                          ELSE JString("Channel does not exist"),
         success |-> JBool(ok[k])]]

RunDocs(request) ==
    LET commands == request.data.commands IN
    {NoDoc}
    \cup {Doc(TRUE, e.keys \cup {"results"}, e.value,
              CommandResults(commands, ok), <<>>) :
            e \in ErrorMessages, ok \in [1..Len(commands) -> BOOLEAN]}
    \cup {Doc(TRUE, e.keys, e.value, <<>>, <<>>) :
            e \in {m \in ErrorMessages : m.value # JNull}}

ImportDocs ==
    {NoDoc}
    \cup {Doc(TRUE, e.keys \cup DOMAIN rest, e.value, <<>>, rest) :
            e \in ErrorMessages,
            rest \in {<<>>, [channels |-> JArray(<<JString("ch1")>>)]}}

\* the text of a sequence of characters
RECURSIVE Join(_)
Join(chars) ==
    IF chars = <<>> THEN "" ELSE Head(chars) \o Join(Tail(chars))

\* the configurationFile texts of an export answer, character by character:
\* the base64 text of <b/> as an encoder writes it, the same with other
\* bits in the unused part of its last character, the base64 text of <c/>,
\* and a text that is not base64
Base64Texts ==
    {<<"P", "G", "I", "v", "P", "g", "=", "=">>,
     <<"P", "G", "I", "v", "P", "h", "=", "=">>,
     <<"P", "G", "M", "v", "P", "g", "=", "=">>,
     <<"<", "b", "/", ">">>}

ConfigurationFiles == {JString(Join(chars)) : chars \in Base64Texts}

binascii_Error(message) == Raise("binascii.Error", PyStr(message))

\* the state of the scan of binascii.a2b_base64(data, strict_mode=True):
\* the position in the quad, the bits left over, the padding seen, whether
\* the scan has ended at a complete padding, the error raised, and the bytes
\* decoded
a2b_base64_states ==
    [quad_pos : 0..3, leftchar : 0..63, pads : 0..3,
     padding_started : BOOLEAN, first : BOOLEAN, done : BOOLEAN,
     error : STRING, bin_data : Seq(0..255)]

a2b_base64_start ==
    [quad_pos |-> 0, leftchar |-> 0, pads |-> 0, padding_started |-> FALSE,
     first |-> TRUE, done |-> FALSE, error |-> "", bin_data |-> <<>>]

\* one turn of the loop of a2b_base64 in strict mode, on the character ch
a2b_base64_char[st \in a2b_base64_states, ch \in STRING] ==
    IF st.error # "" THEN st
    ELSE IF st.done
    THEN [st EXCEPT !.error = "Excess data after padding"]
    ELSE IF ch = "="
    THEN IF st.quad_pos = 0
         THEN [st EXCEPT !.error = IF st.first
                                   THEN "Leading padding not allowed"
                                   ELSE "Excess padding not allowed"]
         ELSE IF st.quad_pos >= 2 /\ st.quad_pos + st.pads + 1 >= 4
         THEN [st EXCEPT !.done = TRUE, !.first = FALSE]
         ELSE [st EXCEPT !.pads = IF st.quad_pos >= 2 THEN @ + 1 ELSE @,
                         !.padding_started = TRUE, !.first = FALSE]
    ELSE IF ~\E k \in 1..64 : B64Chars[k] = ch
    THEN [st EXCEPT !.error = "Only base64 data is allowed"]
    ELSE IF st.padding_started
    THEN [st EXCEPT !.error = "Discontinuous padding not allowed"]
    ELSE LET this_ch == (CHOOSE k \in 1..64 : B64Chars[k] = ch) - 1 IN
         CASE st.quad_pos = 0 ->
                 [st EXCEPT !.quad_pos = 1, !.leftchar = this_ch,
                            !.pads = 0, !.first = FALSE]
           [] st.quad_pos = 1 ->
                 [st EXCEPT !.quad_pos = 2,
                            !.bin_data = Append(@, st.leftchar * 4
                                                   + this_ch \div 16),
                            !.leftchar = this_ch % 16, !.pads = 0]
           [] st.quad_pos = 2 ->
                 [st EXCEPT !.quad_pos = 3,
                            !.bin_data = Append(@, st.leftchar * 16
                                                   + this_ch \div 4),
                            !.leftchar = this_ch % 4, !.pads = 0]
           [] st.quad_pos = 3 ->
                 [st EXCEPT !.quad_pos = 0,
                            !.bin_data = Append(@, st.leftchar * 64
                                                   + this_ch),
                            !.leftchar = 0, !.pads = 0]

\* the state after the first n characters
RECURSIVE a2b_base64_scan(_, _)
a2b_base64_scan(chars, n) ==
    IF n = 0 THEN a2b_base64_start
    ELSE a2b_base64_char[a2b_base64_scan(chars, n - 1), chars[n]]

\* what a2b_base64 returns or raises after the loop
a2b_base64_end[st \in a2b_base64_states] ==
    IF st.error # "" THEN binascii_Error(st.error)
    ELSE IF st.done \/ st.quad_pos = 0 THEN Return(PyBytes(st.bin_data))
    ELSE IF st.quad_pos = 1
    THEN binascii_Error("Invalid base64-encoded string: number of data "
                        \o "characters cannot be 1 more than a multiple "
                        \o "of 4")
    ELSE binascii_Error("Incorrect padding")

\* a variant that decodes only the quads before the last one
a2b_base64_unpadded(chars) ==
    a2b_base64_end[a2b_base64_scan(chars, 4 * ((Len(chars) - 1) \div 4))]

\* binascii.a2b_base64(data, strict_mode=True)
a2b_base64(chars) == a2b_base64_end[a2b_base64_scan(chars, Len(chars))]

\* what the document of a GET answer holds besides errorMessage
GetPayloads(name) ==
    IF name = "export_server_configuration"
    THEN {[configurationFile |-> cf] : cf \in ConfigurationFiles}
    ELSE {[channels |-> JArray(<<JString("ch1")>>)]}

GetDocs(name) ==
    {NoDoc}
    \cup {Doc(TRUE, e.keys \cup DOMAIN rest, e.value, <<>>, rest) :
            e \in ErrorMessages, rest \in GetPayloads(name)}

\* the documents that may answer the request of an operation
Docs(name, request) ==
    IF name = "run_archive_configuration_commands" THEN RunDocs(request)
    ELSE IF name = "import_server_configuration" THEN ImportDocs
    ELSE GetDocs(name)

Responses(request, docs) ==
    {[code |-> code,
      content_type |-> ct,
      content_encoding |-> tr.content_encoding,
      body |-> [gzipped |-> tr.gzipped, charset |-> tr.charset,
                doc |-> doc]] :
        code \in StatusCodes, ct \in ContentTypes, tr \in Transfers,
        doc \in docs}

(***************************************************************************)
(* The two POST operations of AdminClient as steps: the call builds and    *)
(* sends the request, urlopen answers, the rest of the method runs.        *)
(***************************************************************************)
NoOp == [name |-> "", args |-> <<>>]

NoReq == [url |-> "", data |-> NoData, headers |-> <<>>, method |-> ""]

NoResp ==
    [code |-> 0,
     content_type |-> [present |-> FALSE, segments |-> <<>>],
     content_encoding |-> PyNone,
     body |-> [gzipped |-> FALSE, charset |-> "", doc |-> NoDoc]]

NoResult == [kind |-> "none", exc |-> "", arg |-> PyNone, value |-> <<>>]

\* the files open() finds at the start
Files == [name \in {"channels.xml"} |-> <<60, 99, 47, 62>>]

\* a variant in which an import changes nothing unless asked to
import_server_configuration_defaults_none ==
    [add_channels |-> PyBool(FALSE), remove_channels |-> PyBool(FALSE),
     update_channels |-> PyBool(FALSE), simulate |-> PyBool(FALSE)]

import_server_configuration_defaults ==
    [add_channels |-> PyBool(TRUE), remove_channels |-> PyBool(FALSE),
     update_channels |-> PyBool(TRUE), simulate |-> PyBool(FALSE)]

\* import_server_configuration up to "req = self._req(...)": the request,
\* or the exception of open()
import_server_configuration_req(this, fs, a) ==
    LET b == Bind(a, import_server_configuration_defaults)
        url == "/channels/by-server/" \o str(b.server_id) \o "/import"
        is_bytes == b.configuration_file.t = "bytes"
        found == b.configuration_file.s \in DOMAIN fs
        config_data == IF is_bytes THEN b64encode(b.configuration_file.l)
                       ELSE b64encode(fs[b.configuration_file.s])
        req_data == [addChannels |-> b.add_channels,
                     configurationFile |-> PyStr(config_data),
                     removeChannels |-> b.remove_channels,
                     simulate |-> b.simulate,
                     updateChannels |-> b.update_channels]
    IN  IF ~is_bytes /\ ~found
        THEN Raise("FileNotFoundError", b.configuration_file)
        ELSE Return(AdminClient_req(this, url, req_data, "POST", TRUE))

run_archive_configuration_commands(commands) ==
    /\ pc = "idle"
    /\ op' = [name |-> "run_archive_configuration_commands",
              args |-> [commands |-> commands]]
    /\ req' = _req("/run-archive-configuration-commands",
                   [commands |-> commands], "POST", TRUE)
    /\ resp' = NoResp
    /\ result' = NoResult
    /\ pc' = "sent"
    /\ nReq' = 0
    /\ UNCHANGED <<self, archive, files, builderVars, encoderVars, threadVars>>

import_server_configuration(a) ==
    LET r == import_server_configuration_req(self, files, a) IN
    /\ pc = "idle"
    /\ op' = [name |-> "import_server_configuration", args |-> a]
    /\ resp' = NoResp
    /\ IF r.kind = "raise"
       THEN /\ req' = NoReq
            /\ result' = r
            /\ pc' = "done"
       ELSE /\ req' = r.value
            /\ result' = NoResult
            /\ pc' = "sent"
    /\ nReq' = 0
    /\ UNCHANGED <<self, archive, files, builderVars, encoderVars, threadVars>>

\* urlopen returns the response, or raises the HTTPError that _do_req
\* returns in its place
\* a variant that sends the request once more after a status outside 2xx
_do_req_retrying ==
    /\ pc = "sent"
    /\ \E r \in Responses(req, Docs(op.name, req)) : resp' = r
    /\ pc' = IF _is_success_code(resp'.code) \/ nReq >= 1
             THEN "responded" ELSE "sent"
    /\ nReq' = nReq + 1
    /\ UNCHANGED <<self, archive, files, op, req, result, builderVars, encoderVars,
                   threadVars>>

_do_req ==
    /\ pc = "sent"
    /\ \E r \in Responses(req, Docs(op.name, req)) : resp' = r
    /\ pc' = "responded"
    /\ nReq' = nReq + 1
    /\ UNCHANGED <<self, archive, files, op, req, result, builderVars, encoderVars,
                   threadVars>>

\* urlopen raises an URLError that is not an HTTPError: it leaves the method
URLError ==
    /\ pc = "sent"
    /\ result' = Raise("URLError", PyStr("Connection refused"))
    /\ pc' = "done"
    /\ nReq' = nReq + 1
    /\ UNCHANGED <<self, archive, files, op, req, resp, builderVars, encoderVars,
                   threadVars>>

run_archive_configuration_commands_returns ==
    /\ pc = "responded"
    /\ op.name = "run_archive_configuration_commands"
    /\ result' = run_archive_configuration_commands_result(resp)
    /\ pc' = "done"
    /\ UNCHANGED <<self, archive, files, op, req, resp, nReq, builderVars,
                   encoderVars, threadVars>>

import_server_configuration_returns ==
    /\ pc = "responded"
    /\ op.name = "import_server_configuration"
    /\ result' = import_server_configuration_result(resp)
    /\ pc' = "done"
    /\ UNCHANGED <<self, archive, files, op, req, resp, nReq, builderVars,
                   encoderVars, threadVars>>

\* The caller has the outcome of its call; the client "can be used for an
\* arbitrary number of requests".
CallEnds ==
    /\ pc = "done"
    /\ pc' = "idle"
    /\ op' = NoOp
    /\ req' = NoReq
    /\ resp' = NoResp
    /\ result' = NoResult
    /\ nReq' = 0
    /\ UNCHANGED <<self, archive, files, builderVars, encoderVars, threadVars>>

(***************************************************************************)
(* The GET operations of AdminClient                                       *)
(***************************************************************************)
Upper ==
    <<"A", "B", "C", "D", "E", "F", "G", "H", "I", "J", "K", "L", "M",
      "N", "O", "P", "Q", "R", "S", "T", "U", "V", "W", "X", "Y", "Z">>

Lower ==
    <<"a", "b", "c", "d", "e", "f", "g", "h", "i", "j", "k", "l", "m",
      "n", "o", "p", "q", "r", "s", "t", "u", "v", "w", "x", "y", "z">>

\* the character of an ASCII code: the letters, the digits and the marks
\* that an escaped URL part is made of
Chr(b) ==
    IF 48 <= b /\ b <= 57 THEN Digit[b - 47]
    ELSE IF 65 <= b /\ b <= 90 THEN Upper[b - 64]
    ELSE IF 97 <= b /\ b <= 122 THEN Lower[b - 96]
    ELSE CASE b = 37  -> "%"
           [] b = 45  -> "-"
           [] b = 46  -> "."
           [] b = 95  -> "_"
           [] b = 126 -> "~"

\* bytes.decode('ascii') of printable characters
RECURSIVE decode_ascii(_)
decode_ascii(bytes) ==
    IF bytes = <<>> THEN ""
    ELSE Chr(Head(bytes)) \o decode_ascii(Tail(bytes))

\* base64.b64decode(s.encode(encoding='ascii'), validate=True): the text is
\* decoded character by character
b64decode(s) ==
    a2b_base64(CHOOSE chars \in Base64Texts : Join(chars) = s)

get_cluster_status_req(this) ==
    AdminClient_req(this, "/cluster-status/", NoData, "GET", FALSE)

get_server_status_req(this) ==
    AdminClient_req(this, "/server-status/this-server/", NoData, "GET", FALSE)

get_channel_defaults == [server_id |-> PyNone]

get_channel_req(this, a) ==
    LET b == Bind(a, get_channel_defaults)
        channel_name == decode_ascii(_encode_uri_part_custom(b.channel_name))
        url == IF b.server_id = PyNone
               THEN "/channels/all/by-name/" \o channel_name \o "/"
               ELSE "/channels/by-server/" \o str(b.server_id)
                    \o "/by-name/" \o channel_name \o "/"
    IN  AdminClient_req(this, url, NoData, "GET", FALSE)

list_all_channels_req(this) ==
    AdminClient_req(this, "/channels/all/", NoData, "GET", FALSE)

list_channels_for_server_req(this, a) ==
    AdminClient_req(this, "/channels/by-server/" \o str(a.server_id) \o "/",
                    NoData, "GET", FALSE)

export_server_configuration_defaults == [configuration_file |-> PyNone]

export_server_configuration_req(this, a) ==
    AdminClient_req(this,
                    "/channels/by-server/" \o str(a.server_id) \o "/export",
                    NoData, "GET", FALSE)

\* Mutant of get_channel_result: a top-level errorMessage is raised, as the
\* POST operations do.
get_channel_result_logical(r) ==
    IF r.code = 503
    THEN Raise("Exception", PyStr("Service currently not available"))
    ELSE IF ~_is_success_code(r.code)
    THEN Raise("Exception",
               PyStr("Request failed with status code " \o NatToStr(r.code)))
    ELSE LET resp_data == _get_resp_data(r) IN
         IF resp_data.kind = "raise" THEN resp_data
         ELSE IF "errorMessage" \in resp_data.value.keys
                 /\ resp_data.value.errorMessage # PyNone
         THEN Raise("Exception", resp_data.value.errorMessage)
         ELSE resp_data

get_channel_result(r) ==
    IF r.code = 503
    THEN Raise("Exception", PyStr("Service currently not available"))
    ELSE IF ~_is_success_code(r.code)
    THEN Raise("Exception",
               PyStr("Request failed with status code " \o NatToStr(r.code)))
    ELSE _get_resp_data(r)

get_cluster_status_result(r) ==
    IF r.code = 503
    THEN Raise("Exception", PyStr("Service currently not available"))
    ELSE IF ~_is_success_code(r.code)
    THEN Raise("Exception",
               PyStr("Request failed with status code " \o NatToStr(r.code)))
    ELSE _get_resp_data(r)

get_server_status_result(r) ==
    IF ~_is_success_code(r.code)
    THEN Raise("Exception",
               PyStr("Request failed with status code " \o NatToStr(r.code)))
    ELSE _get_resp_data(r)

list_all_channels_result(r) ==
    IF r.code = 503
    THEN Raise("Exception", PyStr("Service currently not available"))
    ELSE IF ~_is_success_code(r.code)
    THEN Raise("Exception",
               PyStr("Request failed with status code " \o NatToStr(r.code)))
    ELSE LET resp_data == _get_resp_data(r) IN
         IF resp_data.kind = "raise" THEN resp_data
         ELSE IF "channels" \notin resp_data.value.keys
         THEN Raise("KeyError", PyStr("channels"))
         ELSE Return(resp_data.value.rest.channels)

list_channels_for_server_result(r) ==
    IF r.code = 503
    THEN Raise("Exception", PyStr("Service currently not available"))
    ELSE IF ~_is_success_code(r.code)
    THEN Raise("Exception",
               PyStr("Request failed with status code " \o NatToStr(r.code)))
    ELSE LET resp_data == _get_resp_data(r) IN
         IF resp_data.kind = "raise" THEN resp_data
         ELSE IF "channels" \notin resp_data.value.keys
         THEN Raise("KeyError", PyStr("channels"))
         ELSE Return(resp_data.value.rest.channels)

\* the paths open(configuration_file, 'wb') cannot create
Unwritable == {"nodir/out.xml"}

\* a variant that returns the bytes also when it has written them to the path
export_server_configuration_result_both(a, r, fs) ==
    LET b == Bind(a, export_server_configuration_defaults)
        resp_data == _get_resp_data(r)
        text == resp_data.value.rest.configurationFile
        config_file_contents == b64decode(text.s)
        path == b.configuration_file.s
    IN  IF r.code = 503
        THEN [result |-> Raise("Exception",
                               PyStr("Service currently not available")),
              files |-> fs]
        ELSE IF ~_is_success_code(r.code)
        THEN [result |-> Raise("Exception",
                               PyStr("Request failed with status code "
                                     \o NatToStr(r.code))),
              files |-> fs]
        ELSE IF resp_data.kind = "raise"
        THEN [result |-> resp_data, files |-> fs]
        ELSE IF "configurationFile" \notin resp_data.value.keys
        THEN [result |-> Raise("KeyError", PyStr("configurationFile")),
              files |-> fs]
        ELSE IF text.t # "str"
        THEN [result |-> Raise("AttributeError", PyStr("encode")),
              files |-> fs]
        ELSE IF config_file_contents.kind = "raise"
        THEN [result |-> config_file_contents, files |-> fs]
        ELSE IF b.configuration_file = PyNone
        THEN [result |-> Return(config_file_contents.value), files |-> fs]
        ELSE IF path \in Unwritable
        THEN [result |-> Raise("FileNotFoundError", b.configuration_file),
              files |-> fs]
        ELSE [result |-> Return(config_file_contents.value),
              files |-> (path :> config_file_contents.value.l) @@ fs]

\* How export_server_configuration ends on a response: the value returned
\* or raised, and the file system it leaves.
export_server_configuration_result(a, r, fs) ==
    LET b == Bind(a, export_server_configuration_defaults)
        resp_data == _get_resp_data(r)
        text == resp_data.value.rest.configurationFile
        config_file_contents == b64decode(text.s)
        path == b.configuration_file.s
    IN  IF r.code = 503
        THEN [result |-> Raise("Exception",
                               PyStr("Service currently not available")),
              files |-> fs]
        ELSE IF ~_is_success_code(r.code)
        THEN [result |-> Raise("Exception",
                               PyStr("Request failed with status code "
                                     \o NatToStr(r.code))),
              files |-> fs]
        ELSE IF resp_data.kind = "raise"
        THEN [result |-> resp_data, files |-> fs]
        ELSE IF "configurationFile" \notin resp_data.value.keys
        THEN [result |-> Raise("KeyError", PyStr("configurationFile")),
              files |-> fs]
        ELSE IF text.t # "str"
        THEN [result |-> Raise("AttributeError", PyStr("encode")),
              files |-> fs]
        ELSE IF config_file_contents.kind = "raise"
        THEN [result |-> config_file_contents, files |-> fs]
        ELSE IF b.configuration_file = PyNone
        THEN [result |-> Return(config_file_contents.value), files |-> fs]
        ELSE IF path \in Unwritable
        THEN [result |-> Raise("FileNotFoundError", b.configuration_file),
              files |-> fs]
        ELSE [result |-> Return(PyNone),
              files |-> (path :> config_file_contents.value.l) @@ fs]

get_cluster_status ==
    /\ pc = "idle"
    /\ op' = [name |-> "get_cluster_status", args |-> <<>>]
    /\ req' = get_cluster_status_req(self)
    /\ resp' = NoResp
    /\ result' = NoResult
    /\ pc' = "sent"
    /\ nReq' = 0
    /\ UNCHANGED <<self, archive, files, builderVars, encoderVars, threadVars>>

get_server_status ==
    /\ pc = "idle"
    /\ op' = [name |-> "get_server_status", args |-> <<>>]
    /\ req' = get_server_status_req(self)
    /\ resp' = NoResp
    /\ result' = NoResult
    /\ pc' = "sent"
    /\ nReq' = 0
    /\ UNCHANGED <<self, archive, files, builderVars, encoderVars, threadVars>>

get_channel(a) ==
    /\ pc = "idle"
    /\ op' = [name |-> "get_channel", args |-> a]
    /\ req' = get_channel_req(self, a)
    /\ resp' = NoResp
    /\ result' = NoResult
    /\ pc' = "sent"
    /\ nReq' = 0
    /\ UNCHANGED <<self, archive, files, builderVars, encoderVars, threadVars>>

list_all_channels ==
    /\ pc = "idle"
    /\ op' = [name |-> "list_all_channels", args |-> <<>>]
    /\ req' = list_all_channels_req(self)
    /\ resp' = NoResp
    /\ result' = NoResult
    /\ pc' = "sent"
    /\ nReq' = 0
    /\ UNCHANGED <<self, archive, files, builderVars, encoderVars, threadVars>>

list_channels_for_server(a) ==
    /\ pc = "idle"
    /\ op' = [name |-> "list_channels_for_server", args |-> a]
    /\ req' = list_channels_for_server_req(self, a)
    /\ resp' = NoResp
    /\ result' = NoResult
    /\ pc' = "sent"
    /\ nReq' = 0
    /\ UNCHANGED <<self, archive, files, builderVars, encoderVars, threadVars>>

export_server_configuration(a) ==
    /\ pc = "idle"
    /\ op' = [name |-> "export_server_configuration", args |-> a]
    /\ req' = export_server_configuration_req(self, a)
    /\ resp' = NoResp
    /\ result' = NoResult
    /\ pc' = "sent"
    /\ nReq' = 0
    /\ UNCHANGED <<self, archive, files, builderVars, encoderVars, threadVars>>

get_cluster_status_returns ==
    /\ pc = "responded"
    /\ op.name = "get_cluster_status"
    /\ result' = get_cluster_status_result(resp)
    /\ pc' = "done"
    /\ UNCHANGED <<self, archive, files, op, req, resp, nReq, builderVars,
                   encoderVars, threadVars>>

get_server_status_returns ==
    /\ pc = "responded"
    /\ op.name = "get_server_status"
    /\ result' = get_server_status_result(resp)
    /\ pc' = "done"
    /\ UNCHANGED <<self, archive, files, op, req, resp, nReq, builderVars,
                   encoderVars, threadVars>>

get_channel_returns ==
    /\ pc = "responded"
    /\ op.name = "get_channel"
    /\ result' = get_channel_result(resp)
    /\ pc' = "done"
    /\ UNCHANGED <<self, archive, files, op, req, resp, nReq, builderVars,
                   encoderVars, threadVars>>

list_all_channels_returns ==
    /\ pc = "responded"
    /\ op.name = "list_all_channels"
    /\ result' = list_all_channels_result(resp)
    /\ pc' = "done"
    /\ UNCHANGED <<self, archive, files, op, req, resp, nReq, builderVars,
                   encoderVars, threadVars>>

list_channels_for_server_returns ==
    /\ pc = "responded"
    /\ op.name = "list_channels_for_server"
    /\ result' = list_channels_for_server_result(resp)
    /\ pc' = "done"
    /\ UNCHANGED <<self, archive, files, op, req, resp, nReq, builderVars,
                   encoderVars, threadVars>>

export_server_configuration_returns ==
    LET o == export_server_configuration_result(op.args, resp, files) IN
    /\ pc = "responded"
    /\ op.name = "export_server_configuration"
    /\ result' = o.result
    /\ files' = o.files
    /\ pc' = "done"
    /\ UNCHANGED <<self, archive, op, req, resp, nReq, builderVars,
                   encoderVars, threadVars>>

(***************************************************************************)
(* The operations of ArchiveClient                                         *)
(***************************************************************************)
HexDigits ==
    <<"0", "1", "2", "3", "4", "5", "6", "7", "8", "9", "A", "B", "C", "D",
      "E", "F">>

\* one byte as urllib.parse.quote(..., safe='') writes it: letters, digits
\* and "_.-~" as they are, every other byte as %XX
quote_byte(b) ==
    IF \/ (48 <= b /\ b <= 57) \/ (65 <= b /\ b <= 90)
       \/ (97 <= b /\ b <= 122) \/ b \in {95, 46, 45, 126}
    THEN Chr(b)
    ELSE "%" \o HexDigits[(b \div 16) + 1] \o HexDigits[(b % 16) + 1]

RECURSIVE quote_bytes(_)
quote_bytes(bytes) ==
    IF bytes = <<>> THEN ""
    ELSE quote_byte(Head(bytes)) \o quote_bytes(Tail(bytes))

\* urllib.parse.quote(string, safe='')
quote(string) == quote_bytes(utf_8(string))

ArchiveClient_get_content_type_and_charset(r) ==
    IF ~r.content_type.present
    THEN Raise("AttributeError", PyStr("split"))
    ELSE LET content_type_header == r.content_type.segments
             hits == {k \in 2..Len(content_type_header) :
                         content_type_header[k][1] = "charset"}
             last == CHOOSE k \in hits : \A n \in hits : n <= k
             charset ==
                 IF hits = {} THEN PyNone
                 ELSE IF Len(content_type_header[last]) = 2
                 THEN PyStr(content_type_header[last][2])
                 ELSE PyNone
         IN  Return([content_type |-> content_type_header[1][1],
                     charset |-> charset])

ArchiveClient_get_resp_data(r) ==
    LET h == ArchiveClient_get_content_type_and_charset(r) IN
    IF h.kind = "raise" THEN h
    ELSE IF h.value.content_type # "application/json"
    THEN Raise("Exception",
               PyStr("Expected content-type application/json, but got "
                     \o h.value.content_type \o "."))
    ELSE LET charset == IF h.value.charset = PyNone THEN "utf_8"
                        ELSE h.value.charset.s
             content_encoding == r.content_encoding
         IN  IF content_encoding = PyStr("gzip") /\ ~r.body.gzipped
             THEN Raise("OSError", PyStr("Not a gzipped file"))
             ELSE IF content_encoding # PyStr("gzip") /\ r.body.gzipped
             THEN Raise("ValueError", PyStr("cannot decode"))
             ELSE IF r.body.charset # charset
             THEN Raise("ValueError", PyStr("cannot decode"))
             ELSE IF ~r.body.doc.valid
             THEN Raise("ValueError", PyStr("cannot parse"))
             ELSE Return(LoadDoc(r.body.doc))

ArchiveClient_is_success_code(status_code) ==
    (status_code >= 200) /\ (status_code < 300)

find_channels_by_pattern_req(this, a) ==
    ArchiveClient_req(this,
                      "/archive/1/channels-by-pattern/" \o quote(a.pattern),
                      NoData, "GET", FALSE)

\* "quote(pattern, safe='')" in find_channels_by_regexp: the method has no
\* name pattern, and the module has none
find_channels_by_regexp_req(this, a) ==
    Raise("NameError", PyStr("name 'pattern' is not defined"))

get_samples_defaults == [count |-> PyInt(0)]

\* a variant that appends the count whenever it is not zero
get_samples_req_nonzero(this, a) ==
    LET b == Bind(a, get_samples_defaults)
        req_url == "/archive/1/samples/" \o quote(b.channel_name)
                   \o "?start=" \o str(b.start_time)
                   \o "&end=" \o str(b.end_time)
    IN  ArchiveClient_req(this,
                          IF b.count.i # 0
                          THEN req_url \o "&count=" \o str(b.count)
                          ELSE req_url,
                          NoData, "GET", FALSE)

get_samples_req(this, a) ==
    LET b == Bind(a, get_samples_defaults)
        req_url == "/archive/1/samples/" \o quote(b.channel_name)
                   \o "?start=" \o str(b.start_time)
                   \o "&end=" \o str(b.end_time)
    IN  ArchiveClient_req(this,
                          IF b.count.i > 0
                          THEN req_url \o "&count=" \o str(b.count)
                          ELSE req_url,
                          NoData, "GET", FALSE)

find_channels_by_pattern_result(r) ==
    IF r.code = 503
    THEN Raise("Exception", PyStr("Service currently not available"))
    ELSE IF ~ArchiveClient_is_success_code(r.code)
    THEN Raise("Exception",
               PyStr("Request failed with status code " \o NatToStr(r.code)))
    ELSE ArchiveClient_get_resp_data(r)

get_samples_result(r) ==
    IF r.code = 503
    THEN Raise("Exception", PyStr("Service currently not available"))
    ELSE IF ~ArchiveClient_is_success_code(r.code)
    THEN Raise("Exception",
               PyStr("Request failed with status code " \o NatToStr(r.code)))
    ELSE ArchiveClient_get_resp_data(r)

find_channels_by_pattern(a) ==
    /\ pc = "idle"
    /\ op' = [name |-> "find_channels_by_pattern", args |-> a]
    /\ req' = find_channels_by_pattern_req(archive, a)
    /\ resp' = NoResp
    /\ result' = NoResult
    /\ pc' = "sent"
    /\ nReq' = 0
    /\ UNCHANGED <<self, archive, files, builderVars, encoderVars, threadVars>>

find_channels_by_regexp(a) ==
    /\ pc = "idle"
    /\ op' = [name |-> "find_channels_by_regexp", args |-> a]
    /\ req' = NoReq
    /\ resp' = NoResp
    /\ result' = find_channels_by_regexp_req(archive, a)
    /\ pc' = "done"
    /\ nReq' = 0
    /\ UNCHANGED <<self, archive, files, builderVars, encoderVars, threadVars>>

get_samples(a) ==
    /\ pc = "idle"
    /\ op' = [name |-> "get_samples", args |-> a]
    /\ req' = get_samples_req(archive, a)
    /\ resp' = NoResp
    /\ result' = NoResult
    /\ pc' = "sent"
    /\ nReq' = 0
    /\ UNCHANGED <<self, archive, files, builderVars, encoderVars, threadVars>>

find_channels_by_pattern_returns ==
    /\ pc = "responded"
    /\ op.name = "find_channels_by_pattern"
    /\ result' = find_channels_by_pattern_result(resp)
    /\ pc' = "done"
    /\ UNCHANGED <<self, archive, files, op, req, resp, nReq, builderVars,
                   encoderVars, threadVars>>

get_samples_returns ==
    /\ pc = "responded"
    /\ op.name = "get_samples"
    /\ result' = get_samples_result(resp)
    /\ pc' = "done"
    /\ UNCHANGED <<self, archive, files, op, req, resp, nReq, builderVars,
                   encoderVars, threadVars>>

\* Mutant of OperationRequest: the operation is kept in one place for all
\* threads, and the request is built from what is there.
OperationRequest_shared(admin, arch, fs, o) ==
    LET shared == IF threads[1].pc # "idle" THEN threads[1].op ELSE o IN
    CASE shared.name = "run_archive_configuration_commands" ->
            Return(AdminClient_req(admin,
                                   "/run-archive-configuration-commands",
                                   [commands |-> shared.args.commands],
                                   "POST", TRUE))
      [] shared.name = "import_server_configuration" ->
            import_server_configuration_req(admin, fs, shared.args)
      [] shared.name = "get_cluster_status" ->
            Return(get_cluster_status_req(admin))
      [] shared.name = "get_server_status" ->
            Return(get_server_status_req(admin))
      [] shared.name = "get_channel" ->
            Return(get_channel_req(admin, shared.args))
      [] shared.name = "list_all_channels" ->
            Return(list_all_channels_req(admin))
      [] shared.name = "list_channels_for_server" ->
            Return(list_channels_for_server_req(admin, shared.args))
      [] shared.name = "export_server_configuration" ->
            Return(export_server_configuration_req(admin, shared.args))
      [] shared.name = "find_channels_by_pattern" ->
            Return(find_channels_by_pattern_req(arch, shared.args))
      [] shared.name = "find_channels_by_regexp" ->
            find_channels_by_regexp_req(arch, shared.args)
      [] shared.name = "get_samples" ->
            Return(get_samples_req(arch, shared.args))

(***************************************************************************)
(* An operation by its name: the request it builds (or the exception it    *)
(* raises before it has one) and how it ends on a response.                *)
(***************************************************************************)
OperationRequest(admin, arch, fs, o) ==
    CASE o.name = "run_archive_configuration_commands" ->
            Return(AdminClient_req(admin,
                                   "/run-archive-configuration-commands",
                                   [commands |-> o.args.commands], "POST",
                                   TRUE))
      [] o.name = "import_server_configuration" ->
            import_server_configuration_req(admin, fs, o.args)
      [] o.name = "get_cluster_status" -> Return(get_cluster_status_req(admin))
      [] o.name = "get_server_status" -> Return(get_server_status_req(admin))
      [] o.name = "get_channel" -> Return(get_channel_req(admin, o.args))
      [] o.name = "list_all_channels" -> Return(list_all_channels_req(admin))
      [] o.name = "list_channels_for_server" ->
            Return(list_channels_for_server_req(admin, o.args))
      [] o.name = "export_server_configuration" ->
            Return(export_server_configuration_req(admin, o.args))
      [] o.name = "find_channels_by_pattern" ->
            Return(find_channels_by_pattern_req(arch, o.args))
      [] o.name = "find_channels_by_regexp" ->
            find_channels_by_regexp_req(arch, o.args)
      [] o.name = "get_samples" -> Return(get_samples_req(arch, o.args))

OperationResult(o, r, fs) ==
    CASE o.name = "run_archive_configuration_commands" ->
            [result |-> run_archive_configuration_commands_result(r),
             files |-> fs]
      [] o.name = "import_server_configuration" ->
            [result |-> import_server_configuration_result(r), files |-> fs]
      [] o.name = "get_cluster_status" ->
            [result |-> get_cluster_status_result(r), files |-> fs]
      [] o.name = "get_server_status" ->
            [result |-> get_server_status_result(r), files |-> fs]
      [] o.name = "get_channel" ->
            [result |-> get_channel_result(r), files |-> fs]
      [] o.name = "list_all_channels" ->
            [result |-> list_all_channels_result(r), files |-> fs]
      [] o.name = "list_channels_for_server" ->
            [result |-> list_channels_for_server_result(r), files |-> fs]
      [] o.name = "export_server_configuration" ->
            export_server_configuration_result(o.args, r, fs)
      [] o.name = "find_channels_by_pattern" ->
            [result |-> find_channels_by_pattern_result(r), files |-> fs]
      [] o.name = "get_samples" ->
            [result |-> get_samples_result(r), files |-> fs]

(***************************************************************************)
(* The calls made on the client                                            *)
(***************************************************************************)
\* the commands of the lists: made by the builder
ClientCommands ==
    {move_channel_command([channel_name |-> PyStr("ch1"),
                           new_server_id |-> PyStr("srv-2"),
                           expected_old_server_id |-> Omitted]),
     remove_channel_command([channel_name |-> PyStr("ch2"),
                             expected_server_id |-> PyStr("srv-1")])}

CommandLists == UNION {[1..n -> ClientCommands] : n \in 0..MaxCommands}

ImportArgs ==
    Variations([server_id |-> PyStr("srv-1"),
                configuration_file |-> PyBytes(<<60, 97, 47, 62>>),
                add_channels |-> Omitted,
                remove_channels |-> Omitted,
                update_channels |-> Omitted,
                simulate |-> Omitted],
               [server_id |-> {PyInt(7)},
                configuration_file |-> {PyStr("channels.xml"),
                                        PyStr("missing.xml"),
                                        PyBytes(<<255, 254>>),
                                        PyBytes(<<>>)},
                add_channels |-> {PyBool(FALSE)},
                remove_channels |-> {PyBool(TRUE)},
                update_channels |-> {PyBool(FALSE)},
                simulate |-> {PyBool(TRUE)}])

NextClient ==
    \/ \E commands \in CommandLists :
          run_archive_configuration_commands(commands)
    \/ \E a \in ImportArgs : import_server_configuration(a)
    \/ _do_req
    \/ URLError
    \/ run_archive_configuration_commands_returns
    \/ import_server_configuration_returns
    \/ CallEnds

GetChannelArgs ==
    Variations([channel_name |-> <<99, 104, 49>>, server_id |-> Omitted],
               [channel_name |-> {<<97, 47, 98>>},
                server_id |-> {PyStr("srv-1")}])

ListChannelsForServerArgs == {[server_id |-> PyStr("srv-1")]}

ExportArgs ==
    Variations([server_id |-> PyStr("srv-1"), configuration_file |-> Omitted],
               [server_id |-> {},
                configuration_file |-> {PyStr("out.xml"),
                                        PyStr("channels.xml"),
                                        PyStr("nodir/out.xml")}])

PatternArgs == {[pattern |-> <<99, 104, 42>>], [pattern |-> <<97, 47, 233>>]}

RegexpArgs == {[regular_expression |-> <<99, 104, 46, 42>>]}

GetSamplesArgs ==
    Variations([channel_name |-> <<99, 104, 49>>,
                start_time |-> PyInt(0),
                end_time |-> PyInt(1000),
                count |-> Omitted],
               [channel_name |-> {<<97, 32, 98>>, <<97, 47, 98>>},
                start_time |-> {PyInt(2000)},
                end_time |-> {},
                count |-> {PyInt(0), PyInt(100), PyInt(-1)}])

NextGet ==
    \/ get_cluster_status
    \/ get_server_status
    \/ \E a \in GetChannelArgs : get_channel(a)
    \/ list_all_channels
    \/ \E a \in ListChannelsForServerArgs : list_channels_for_server(a)
    \/ \E a \in ExportArgs : export_server_configuration(a)
    \/ \E a \in PatternArgs : find_channels_by_pattern(a)
    \/ \E a \in RegexpArgs : find_channels_by_regexp(a)
    \/ \E a \in GetSamplesArgs : get_samples(a)
    \/ get_cluster_status_returns
    \/ get_server_status_returns
    \/ get_channel_returns
    \/ list_all_channels_returns
    \/ list_channels_for_server_returns
    \/ export_server_configuration_returns
    \/ find_channels_by_pattern_returns
    \/ get_samples_returns

(***************************************************************************)
(* Concurrent use: each thread calls one operation at a time on the same   *)
(* two clients; the steps of the threads interleave.                       *)
(***************************************************************************)
Threads == {1, 2}

IdleThread ==
    [pc |-> "idle", op |-> NoOp, req |-> NoReq, resp |-> NoResp,
     result |-> NoResult]

\* no thread has called anything
ThreadsIdle == threads = [t \in Threads |-> IdleThread]

\* the calls of the threads: each operation once
ThreadCalls ==
    {[name |-> "run_archive_configuration_commands",
      args |-> [commands |-> <<CHOOSE c \in ClientCommands :
                                  c.commandType = PyStr("move_channel")>>]],
     [name |-> "import_server_configuration",
      args |-> [server_id |-> PyStr("srv-1"),
                configuration_file |-> PyStr("channels.xml"),
                add_channels |-> Omitted, remove_channels |-> Omitted,
                update_channels |-> Omitted, simulate |-> Omitted]],
     [name |-> "get_cluster_status", args |-> <<>>],
     [name |-> "get_server_status", args |-> <<>>],
     [name |-> "get_channel",
      args |-> [channel_name |-> <<97, 47, 98>>, server_id |-> Omitted]],
     [name |-> "list_all_channels", args |-> <<>>],
     [name |-> "list_channels_for_server",
      args |-> [server_id |-> PyStr("srv-1")]],
     [name |-> "export_server_configuration",
      args |-> [server_id |-> PyStr("srv-1"),
                configuration_file |-> PyStr("out.xml")]],
     [name |-> "find_channels_by_pattern",
      args |-> [pattern |-> <<99, 104, 42>>]],
     [name |-> "find_channels_by_regexp",
      args |-> [regular_expression |-> <<99, 104, 46, 42>>]],
     [name |-> "get_samples",
      args |-> [channel_name |-> <<99, 104, 49>>, start_time |-> PyInt(0),
                end_time |-> PyInt(1000), count |-> PyInt(100)]]}

\* the answers to the threads: 200 or 404, application/json, with or
\* without a general error
ThreadResponses(o, request) ==
    {r \in Responses(request,
                     {doc \in Docs(o.name, request) :
                         /\ doc.valid
                         /\ doc.errorMessage
                                \in {JNull, JString("Database not available")}
                         /\ \A k \in 1..Len(doc.results) :
                               doc.results[k].success = JBool(TRUE)
                         /\ "configurationFile" \in doc.keys
                               => doc.rest.configurationFile # JString("<b/>")}) :
        /\ r.code \in {200, 404}
        /\ r.content_type
               = [present |-> TRUE, segments |-> << <<"application/json">> >>]
        /\ r.content_encoding = PyNone
        /\ ~r.body.gzipped
        /\ r.body.charset = "utf_8"}

ThreadCall(t, o) ==
    LET r == OperationRequest(self, archive, files, o) IN
    /\ threads[t].pc = "idle"
    /\ threads' =
          [threads EXCEPT
              ![t] = IF r.kind = "raise"
                     THEN [pc |-> "done", op |-> o, req |-> NoReq,
                           resp |-> NoResp, result |-> r]
                     ELSE [pc |-> "sent", op |-> o, req |-> r.value,
                           resp |-> NoResp, result |-> NoResult]]
    /\ UNCHANGED <<self, archive, files, pc, op, req, resp, result, nReq,
                   builderVars, encoderVars>>

ThreadIsAnswered(t) ==
    /\ threads[t].pc = "sent"
    /\ \E r \in ThreadResponses(threads[t].op, threads[t].req) :
          threads' = [threads EXCEPT ![t].resp = r, ![t].pc = "responded"]
    /\ UNCHANGED <<self, archive, files, pc, op, req, resp, result, nReq,
                   builderVars, encoderVars>>

ThreadReturns(t) ==
    LET o == OperationResult(threads[t].op, threads[t].resp, files) IN
    /\ threads[t].pc = "responded"
    /\ threads' = [threads EXCEPT ![t].result = o.result, ![t].pc = "done"]
    /\ files' = o.files
    /\ UNCHANGED <<self, archive, pc, op, req, resp, result, nReq,
                   builderVars, encoderVars>>

\* the thread has the outcome of its call and may call again
ThreadEnds(t) ==
    /\ threads[t].pc = "done"
    /\ threads' = [threads EXCEPT ![t] = IdleThread]
    /\ UNCHANGED <<self, archive, files, pc, op, req, resp, result, nReq,
                   builderVars, encoderVars>>

NextThreads ==
    \E t \in Threads :
        \/ \E o \in ThreadCalls : ThreadCall(t, o)
        \/ ThreadIsAnswered(t)
        \/ ThreadReturns(t)
        \/ ThreadEnds(t)

(***************************************************************************)
(* Specifications                                                          *)
(***************************************************************************)
server_port == 4812

archive_server_port == 9812

\* ArchiveConfigurationCommands()
BuilderInit ==
    /\ batch = <<>>
    /\ call = [method |-> "__init__", args |-> [self |-> PyNone],
               outcome |-> "ok"]
    /\ nCalls = 0
    /\ nOk = 0

\* no call of _encode_uri_part_custom in progress
EncoderIdle ==
    /\ uri_part = <<>>
    /\ encoded = <<>>
    /\ encPc = "returned"

\* AdminClient('archiver', password='pw')
ClientInit ==
    /\ self = AdminClient__init__("archiver", server_port,
                                  <<97, 100, 109, 105, 110>>, <<112, 119>>)
    /\ archive = ArchiveClient__init__("archiver", archive_server_port)
    /\ files = Files
    /\ pc = "idle"
    /\ op = NoOp
    /\ req = NoReq
    /\ resp = NoResp
    /\ result = NoResult
    /\ nReq = 0
    /\ ThreadsIdle

InitBuilder == BuilderInit /\ EncoderIdle /\ ClientInit

SpecBuilder == InitBuilder /\ [][NextBuilder]_vars

InitEncoder ==
    /\ BuilderInit
    /\ uri_part \in Strings
    /\ encoded = <<>>
    /\ encPc = "called"
    /\ ClientInit

SpecEncoder == InitEncoder /\ [][NextEncoder]_vars

InitClient == BuilderInit /\ EncoderIdle /\ ClientInit

SpecClient == InitClient /\ [][NextClient]_vars

\* every operation of the two clients
NextClients == NextClient \/ NextGet

SpecClients == InitClient /\ [][NextClients]_vars

\* urlopen answers or fails in the end (no call waits for it for ever), and
\* the method that holds a response runs on to its end
MethodRunsOn ==
    \/ run_archive_configuration_commands_returns
    \/ import_server_configuration_returns
    \/ get_cluster_status_returns
    \/ get_server_status_returns
    \/ get_channel_returns
    \/ list_all_channels_returns
    \/ list_channels_for_server_returns
    \/ export_server_configuration_returns
    \/ find_channels_by_pattern_returns
    \/ get_samples_returns

ClientsFairness == []<>(pc # "sent") /\ WF_vars(MethodRunsOn)

SpecClientsFair == SpecClients /\ ClientsFairness

\* the two clients used by two threads
SpecThreads == InitClient /\ [][NextThreads]_vars

Init == InitBuilder \/ InitEncoder

Next == NextBuilder \/ NextEncoder \/ NextClient \/ NextGet \/ NextThreads

Spec == Init /\ [][Next]_vars

(***************************************************************************)
(* Vocabulary of the claims about the batch builder                        *)
(***************************************************************************)
Methods ==
    {"add_channel", "add_or_update_channel", "move_channel",
     "refresh_channel", "remove_channel", "rename_channel", "update_channel"}

\* The key under which each parameter is documented to travel.
ParamKey ==
    [channel_name |-> "channelName",
     control_system_type |-> "controlSystemType",
     server_id |-> "serverId",
     decimation_levels |-> "decimationLevels",
     decimation_level_to_retention_period |->
         "decimationLevelToRetentionPeriod",
     enabled |-> "enabled",
     options |-> "options",
     new_server_id |-> "newServerId",
     expected_old_server_id |-> "expectedOldServerId",
     expected_server_id |-> "expectedServerId",
     new_channel_name |-> "newChannelName",
     old_channel_name |-> "oldChannelName",
     add_decimation_levels |-> "addDecimationLevels",
     add_options |-> "addOptions",
     expected_control_system_type |-> "expectedControlSystemType",
     remove_decimation_levels |-> "removeDecimationLevels",
     remove_options |-> "removeOptions"]

\* The documented key set of each command kind.
DocumentedKeys(kind) ==
    CASE kind \in {"add_channel", "add_or_update_channel"} ->
            {"channelName", "commandType", "controlSystemType",
             "decimationLevels", "decimationLevelToRetentionPeriod",
             "enabled", "options", "serverId"}
      [] kind = "move_channel" ->
            {"channelName", "commandType", "expectedOldServerId",
             "newServerId"}
      [] kind = "refresh_channel" ->
            {"channelName", "commandType", "serverId"}
      [] kind = "remove_channel" ->
            {"channelName", "commandType", "expectedServerId"}
      [] kind = "rename_channel" ->
            {"commandType", "expectedServerId", "newChannelName",
             "oldChannelName"}
      [] kind = "update_channel" ->
            {"addDecimationLevels", "addOptions", "channelName",
             "commandType", "decimationLevels",
             "decimationLevelToRetentionPeriod", "enabled",
             "expectedControlSystemType", "expectedServerId", "options",
             "removeDecimationLevels", "removeOptions"}

ScalarParams ==
    {"channel_name", "control_system_type", "server_id", "new_server_id",
     "expected_old_server_id", "expected_server_id", "new_channel_name",
     "old_channel_name", "expected_control_system_type"}

ListParams ==
    {"decimation_levels", "add_decimation_levels",
     "remove_decimation_levels", "remove_options"}

DictParams ==
    {"options", "add_options", "decimation_level_to_retention_period"}

\* The last builder call returned normally; its command is the last one.
Appended == call.method \in Methods /\ call.outcome = "ok"

LastCommand == batch[Len(batch)]

IsPrefix(s, t) == Len(s) <= Len(t) /\ SubSeq(t, 1, Len(s)) = s

\* The parameters the caller left out of the last call.
OmittedParams == {p \in DOMAIN call.args : call.args[p] = Omitted}

(***************************************************************************)
(* C1: every successful builder call appends exactly one command at the    *)
(* end of the batch; the batch length is the number of successful calls;   *)
(* the batch before a call is a prefix of the batch after it.              *)
(***************************************************************************)
C1_AppendOnly ==
    /\ Len(batch) = nOk
    /\ [][/\ IsPrefix(batch, batch')
          /\ Len(batch') = nOk'
          /\ call'.outcome = "ok" =>
                /\ Len(batch') = Len(batch) + 1
                /\ batch'[Len(batch')].commandType = PyStr(call'.method)
          /\ call'.outcome = "raise" => batch' = batch]_builderVars

C1_Witness ==
    /\ Appended
    /\ nOk = 2
    /\ Len(batch) = 2
    /\ batch[1].commandType = PyStr("move_channel")
    /\ batch[2].commandType = PyStr("update_channel")

(***************************************************************************)
(* C2 as stated: every appended command has exactly the documented keys of *)
(* its kind, its commandType is that kind, and every optional argument the *)
(* caller did not supply is present with the value null.                   *)
(***************************************************************************)
C2_Original ==
    /\ \A k \in 1..Len(batch) :
          /\ batch[k].commandType.t = "str"
          /\ batch[k].commandType.s \in Methods
          /\ DOMAIN batch[k] = DocumentedKeys(batch[k].commandType.s)
    /\ Appended =>
          /\ LastCommand.commandType = PyStr(call.method)
          /\ \A p \in OmittedParams : LastCommand[ParamKey[p]] = PyNone

(***************************************************************************)
(* C2 amended: as C2, but the omitted argument enabled of add_channel and  *)
(* add_or_update_channel travels as true, its documented default; every    *)
(* other omitted optional argument travels as null.                        *)
(***************************************************************************)
C2_KeysAndNulls ==
    /\ \A k \in 1..Len(batch) :
          /\ batch[k].commandType.t = "str"
          /\ batch[k].commandType.s \in Methods
          /\ DOMAIN batch[k] = DocumentedKeys(batch[k].commandType.s)
    /\ Appended =>
          /\ LastCommand.commandType = PyStr(call.method)
          /\ \A p \in OmittedParams :
                IF p = "enabled" /\ call.method # "update_channel"
                THEN LastCommand[ParamKey[p]] = PyBool(TRUE)
                ELSE LastCommand[ParamKey[p]] = PyNone

C2_Witness ==
    /\ Appended
    /\ call.method = "update_channel"
    /\ Cardinality(OmittedParams) = 9
    /\ call.args.remove_options # Omitted
    /\ LastCommand.removeOptions # PyNone
    /\ LastCommand.addOptions = PyNone

\* The pairs of a mapping with every key and every value as a string.
StrPairs(pairs) ==
    [k \in 1..Len(pairs) |->
        <<PyStr(str(pairs[k][1])), PyStr(str(pairs[k][2]))>>]

(***************************************************************************)
(* C3 as stated: a call of add_channel, add_or_update_channel or           *)
(* update_channel that is given a dict for options, add_options or         *)
(* decimation_level_to_retention_period succeeds, and the command carries  *)
(* the same entries with every key and value as a string; for None the     *)
(* field is null.                                                          *)
(***************************************************************************)
C3_MappingsStringified ==
    call.method \in {"add_channel", "add_or_update_channel",
                     "update_channel"} =>
        \A p \in DictParams \cap DOMAIN call.args :
            /\ call.args[p].t = "dict" =>
                  /\ call.outcome = "ok"
                  /\ LastCommand[ParamKey[p]] = PyDict(StrPairs(call.args[p].l))
            /\ (call.args[p] = PyNone /\ call.outcome = "ok") =>
                  LastCommand[ParamKey[p]] = PyNone

IsStrLeaf(v) == v.t = "str"

\* No number below v, the value under key in a command.
NoNumberLeaf(key, v) ==
    \/ v.t \in {"str", "None"}
    \/ v.t = "bool" /\ key = "enabled"
    \/ v.t = "list" /\ \A k \in 1..Len(v.l) : IsStrLeaf(v.l[k])
    \/ v.t = "dict" /\ \A k \in 1..Len(v.l) :
                          IsStrLeaf(v.l[k][1]) /\ IsStrLeaf(v.l[k][2])

(***************************************************************************)
(* C4: no leaf of a command in the batch is a number.  A scalar argument   *)
(* travels as its string form, or null when it is None or omitted; a       *)
(* supplied list travels as the list of its elements' string forms, in     *)
(* order and of the same length, or null; the only leaf that is neither a  *)
(* string nor null is the boolean enabled.                                 *)
(***************************************************************************)
C4_StringsOnly ==
    /\ \A n \in 1..Len(batch) :
          \A key \in DOMAIN batch[n] : NoNumberLeaf(key, batch[n][key])
    /\ Appended =>
          \A p \in DOMAIN call.args :
              LET arg == call.args[p]
                  v == LastCommand[ParamKey[p]]
              IN  /\ p \in ScalarParams =>
                        IF arg \in {PyNone, Omitted} THEN v = PyNone
                        ELSE v = PyStr(str(arg))
                  /\ p \in ListParams =>
                        IF arg \in {PyNone, Omitted} THEN v = PyNone
                        ELSE /\ v.t = "list"
                             /\ Len(v.l) = Len(arg.l)
                             /\ \A k \in 1..Len(arg.l) :
                                   v.l[k] = PyStr(str(arg.l[k]))

C4_Witness ==
    /\ Appended
    /\ call.method = "update_channel"
    /\ call.args.remove_decimation_levels =
           PyList(<<PyInt(30), PyInt(0), PyStr("900")>>)
    /\ LastCommand.removeDecimationLevels =
           PyList(<<PyStr("30"), PyStr("0"), PyStr("900")>>)
    /\ LastCommand.channelName = PyStr("ch1")
    /\ Len(batch) = 2
    /\ batch[1].commandType = PyStr("rename_channel")
    /\ batch[1].newChannelName = PyStr("7")

\* Python's truth value of the objects passed as enabled.
Truth(obj) ==
    CASE obj = PyBool(TRUE) -> TRUE
      [] obj = PyStr("no") -> TRUE
      [] obj = PyBool(FALSE) -> FALSE
      [] obj = PyInt(0) -> FALSE
      [] obj = PyNone -> FALSE

(***************************************************************************)
(* C5: enabled of add_channel and add_or_update_channel is always a        *)
(* boolean: true when the argument is omitted, false for None, else the    *)
(* argument's truth value.  enabled of update_channel is null exactly when *)
(* the argument is None or omitted, and else the argument's truth value.   *)
(***************************************************************************)
C5_Enabled ==
    Appended /\ "enabled" \in DOMAIN call.args =>
        LET arg == call.args.enabled
            v == LastCommand.enabled
        IN  IF call.method = "update_channel"
            THEN /\ v = PyNone <=> arg \in {PyNone, Omitted}
                 /\ arg \notin {PyNone, Omitted} => v = PyBool(Truth(arg))
            ELSE /\ v.t = "bool"
                 /\ v = PyBool(IF arg = Omitted THEN TRUE ELSE Truth(arg))

C5_Witness ==
    /\ Appended
    /\ Len(batch) = 2
    /\ batch[1].commandType = PyStr("update_channel")
    /\ batch[1].enabled = PyNone
    /\ call.method = "update_channel"
    /\ call.args.enabled = PyInt(0)
    /\ batch[2].enabled = PyBool(FALSE)

(***************************************************************************)
(* Vocabulary of the claims about the tilde escape                         *)
(***************************************************************************)
\* '-', '_', a decimal digit or an ASCII letter
SafeByte(b) == b \in ({45, 95} \cup (48..57) \cup (65..90) \cup (97..122))

\* '0'..'9', 'A'..'F' by value
HexChar == <<48, 49, 50, 51, 52, 53, 54, 55, 56, 57, 65, 66, 67, 68, 69, 70>>

\* Output characters that precede the escape of byte k of bytes.
Offset(bytes, k) ==
    (k - 1) + 2 * Cardinality({j \in 1..(k - 1) : ~SafeByte(bytes[j])})

(***************************************************************************)
(* C6: the escape of a string is the concatenation, in byte order, of one  *)
(* piece per UTF-8 byte: the byte itself when it is '-', '_', a digit or   *)
(* an ASCII letter, and else '~', the high nibble, the low nibble, each as *)
(* '0'-'9' or 'A'-'F'; its length is safe bytes + 3 * other bytes.         *)
(***************************************************************************)
C6_TildeEscape ==
    encPc = "returned" =>
        LET bytes == utf_8(uri_part) IN
        /\ Len(encoded) =
               Cardinality({k \in 1..Len(bytes) : SafeByte(bytes[k])})
               + 3 * Cardinality({k \in 1..Len(bytes) : ~SafeByte(bytes[k])})
        /\ \A k \in 1..Len(bytes) :
              LET o == Offset(bytes, k) IN
              IF SafeByte(bytes[k]) THEN encoded[o + 1] = bytes[k]
              ELSE /\ encoded[o + 1] = 126
                   /\ encoded[o + 2] = HexChar[(bytes[k] \div 16) + 1]
                   /\ encoded[o + 3] = HexChar[(bytes[k] % 16) + 1]

\* " é" becomes "~20~C3~A9"
C6_Witness ==
    /\ encPc = "returned"
    /\ uri_part = <<32, 233>>
    /\ encoded = <<126, 50, 48, 126, 67, 51, 126, 65, 57>>

HexVal(c) ==
    IF c \in 48..57 THEN c - 48 ELSE IF c \in 65..70 THEN c - 55 ELSE -1

\* The server's reading of an escaped path segment: "~XX" is the byte of
\* hexadecimal value XX, every other character is itself; <<-1>> marks a
\* text that is no escape.
RECURSIVE Unescape(_)
Unescape(text) ==
    IF text = <<>> THEN <<>>
    ELSE IF Head(text) # 126 THEN <<Head(text)>> \o Unescape(Tail(text))
    ELSE IF Len(text) >= 3 /\ HexVal(text[2]) >= 0 /\ HexVal(text[3]) >= 0
    THEN <<16 * HexVal(text[2]) + HexVal(text[3])>>
         \o Unescape(SubSeq(text, 4, Len(text)))
    ELSE <<-1>>

\* Other strings, to compare escapes with.
Probes ==
    {<<>>, <<126, 50, 48>>, <<126, 55, 69>>} \cup {<<cp>> : cp \in EdgeChars}

(***************************************************************************)
(* C7: the escape consists of characters of [A-Za-z0-9_-] and '~' only;    *)
(* reading each "~XX" as the byte XX and every other character as itself   *)
(* gives back the UTF-8 bytes of the string; a string with other bytes has *)
(* another escape.                                                         *)
(***************************************************************************)
C7_Reversible ==
    encPc = "returned" =>
        /\ \A k \in 1..Len(encoded) : SafeByte(encoded[k]) \/ encoded[k] = 126
        /\ Unescape(encoded) = utf_8(uri_part)
        /\ \A other \in Probes :
              utf_8(other) # utf_8(uri_part) =>
                  _encode_uri_part_custom(other) # encoded

\* "~A" becomes "~7EA", and not "~A"
C7_Witness ==
    /\ encPc = "returned"
    /\ uri_part = <<126, 65>>
    /\ encoded = <<126, 55, 69, 65>>

(***************************************************************************)
(* Vocabulary of the claims about AdminClient.  The response is described  *)
(* from what the server sent, not from what the client read.               *)
(***************************************************************************)
\* the operation has ended after a response arrived
Answered(name) == pc = "done" /\ op.name = name /\ resp.code # 0

\* the body can be read as the JSON document the server wrote
JsonBody ==
    LET segments == resp.content_type.segments
        declared == IF Len(segments) > 1 THEN segments[2][2] ELSE "utf_8"
    IN  /\ resp.content_type.present
        /\ segments[1][1] = "application/json"
        /\ (resp.content_encoding = PyStr("gzip")) <=> resp.body.gzipped
        /\ resp.body.charset = declared
        /\ resp.body.doc.valid

\* the top-level errorMessage of the document, null when it has none
TopErrorMessage ==
    IF "errorMessage" \in resp.body.doc.keys THEN resp.body.doc.errorMessage
    ELSE JNull

\* a Python value is the JSON value, member by member
RECURSIVE Same(_, _)
Same(v, j) ==
    CASE j.j = "null"   -> v.t = "None"
      [] j.j = "string" -> v.t = "str" /\ v.s = j.s
      [] j.j = "bool"   -> v.t = "bool" /\ v.i = j.i
      [] j.j = "number" -> v.t = "int" /\ v.i = j.i
      [] j.j = "array"  ->
            /\ v.t = "list"
            /\ Len(v.l) = Len(j.l)
            /\ \A k \in 1..Len(j.l) : Same(v.l[k], j.l[k])
      [] j.j = "object" ->
            /\ v.t = "dict"
            /\ Len(v.l) = Len(j.l)
            /\ \A k \in 1..Len(j.l) :
                  /\ v.l[k][1] = PyStr(j.l[k][1].s)
                  /\ Same(v.l[k][2], j.l[k][2])

SameDict(d, o) == DOMAIN d = DOMAIN o /\ \A k \in DOMAIN o : Same(d[k], o[k])

\* a returned list is the results array of the document, entry by entry
SameResults(value, results) ==
    /\ Len(value) = Len(results)
    /\ \A k \in 1..Len(results) :
          /\ SameDict(value[k].command, results[k].command)
          /\ Same(value[k].errorMessage, results[k].errorMessage)
          /\ Same(value[k].success, results[k].success)

C9_PerCommandFailuresReturned ==
    (/\ Answered("run_archive_configuration_commands")
     /\ _is_success_code(resp.code)
     /\ JsonBody
     /\ TopErrorMessage = JNull)
    => /\ result.kind = "return"
       /\ SameResults(result.value, resp.body.doc.results)
       /\ \A k \in 1..Len(resp.body.doc.results) :
             resp.body.doc.results[k].success = JBool(FALSE)
             => /\ result.value[k].success = PyBool(FALSE)
                /\ result.value[k].errorMessage
                       = PyStr(resp.body.doc.results[k].errorMessage.s)

\* C9 witness: the server reported the first command as failed and the
\* second as done, and the call returned both results.
C9_Witness ==
    /\ Answered("run_archive_configuration_commands")
    /\ _is_success_code(resp.code)
    /\ JsonBody
    /\ Len(resp.body.doc.results) = 2
    /\ resp.body.doc.results[1].success = JBool(FALSE)
    /\ resp.body.doc.results[2].success = JBool(TRUE)
    /\ result.kind = "return"
    /\ Len(result.value) = 2
    /\ result.value[1].success = PyBool(FALSE)

PostOperations ==
    {"import_server_configuration", "run_archive_configuration_commands"}

AuthenticationError == Raise("Exception", PyStr("Authentication error"))

MalformedRequest ==
    Raise("Exception", PyStr("Malformed request. Check the input parameters"))

ServiceUnavailable ==
    Raise("Exception", PyStr("Service currently not available"))

RequestFailed(n) ==
    Raise("Exception", PyStr("Request failed with status code " \o NatToStr(n)))

C12_Original ==
    \A name \in PostOperations :
        (Answered(name) /\ resp.code = 400) =>
            IF JsonBody /\ TopErrorMessage # JNull
            THEN result = Raise("Exception", PyStr(TopErrorMessage.s))
            ELSE result = MalformedRequest

\* C12: on a 400 answer to either POST operation the failure carries the
\* top-level errorMessage of the body when the body is readable JSON and the
\* errorMessage is neither null nor empty, and the fallback message
\* 'Malformed request. Check the input parameters' in every other case:
\* unreadable body, no errorMessage, null or empty errorMessage.  No
\* content-type or parse error comes out of a 400.
C12_BadRequestMessage ==
    \A name \in PostOperations :
        (Answered(name) /\ resp.code = 400) =>
            IF /\ JsonBody
               /\ TopErrorMessage # JNull
               /\ TopErrorMessage # JString("")
            THEN result = Raise("Exception", PyStr(TopErrorMessage.s))
            ELSE result = MalformedRequest

\* C12 witness: a 400 whose body cannot be read (text/html) gave the
\* fallback message.
C12_Witness ==
    /\ Answered("run_archive_configuration_commands")
    /\ resp.code = 400
    /\ resp.content_type.present
    /\ resp.content_type.segments[1][1] = "text/html"
    /\ result = MalformedRequest

(***************************************************************************)
(* The operations by kind                                                  *)
(***************************************************************************)
AdminGetOperations ==
    {"get_cluster_status", "get_server_status", "get_channel",
     "list_all_channels", "list_channels_for_server",
     "export_server_configuration"}

ArchiveOperations ==
    {"find_channels_by_pattern", "find_channels_by_regexp", "get_samples"}

GetOperations == AdminGetOperations \cup ArchiveOperations

Operations == PostOperations \cup GetOperations

\* an operation of the set has ended after a response arrived
AnsweredOne(names) == pc = "done" /\ op.name \in names /\ resp.code # 0

\* the content type the response declares: the Content-Type header up to
\* the first ';'
DeclaredType == resp.content_type.segments[1][1]

C14_ServiceUnavailable ==
    (AnsweredOne(Operations) /\ resp.code = 503) =>
        /\ result = ServiceUnavailable
        /\ result # RequestFailed(503)

\* C15: no operation returns a payload from a response that does not
\* declare application/json: whenever an operation returns, a response came
\* and its declared content type is exactly application/json; a 2xx answer
\* that declares another content type ends in the content-type error.
C15_JsonOnly ==
    /\ (pc = "done" /\ result.kind = "return") =>
          /\ resp.code # 0
          /\ resp.content_type.present
          /\ DeclaredType = "application/json"
    /\ (/\ AnsweredOne(Operations)
        /\ resp.code >= 200 /\ resp.code < 300
        /\ resp.content_type.present
        /\ DeclaredType # "application/json")
       => result = Raise("Exception",
                         PyStr("Expected content-type application/json, but got "
                               \o DeclaredType \o "."))

\* C15 witness: a 200 text/html answer to get_samples gave the content-type
\* error.
C15_Witness ==
    /\ AnsweredOne({"get_samples"})
    /\ resp.code = 200
    /\ resp.content_type.present
    /\ DeclaredType = "text/html"
    /\ result.kind = "raise"
    /\ result.arg
           = PyStr("Expected content-type application/json, but got text/html.")

\* C16: the GET operations have no logical-error tier: on a 2xx
\* application/json answer a GET operation gives the payload even when the
\* document has a top-level errorMessage that is not null (export may still
\* fail on the configurationFile or on the file); only
\* import_server_configuration and run_archive_configuration_commands raise
\* the errorMessage.
C16_NoLogicalErrorOnGet ==
    /\ (/\ AnsweredOne(GetOperations)
        /\ resp.code >= 200 /\ resp.code < 300
        /\ JsonBody)
       => IF op.name = "export_server_configuration"
          THEN \/ result.kind = "return"
               \/ result.exc \in {"binascii.Error", "FileNotFoundError"}
          ELSE /\ result.kind = "return"
               /\ IF op.name \in {"list_all_channels",
                                  "list_channels_for_server"}
                  THEN Same(result.value, resp.body.doc.rest.channels)
                  ELSE /\ result.value.keys = resp.body.doc.keys
                       /\ SameDict(result.value.rest, resp.body.doc.rest)
                       /\ "errorMessage" \in resp.body.doc.keys
                             => Same(result.value.errorMessage,
                                     resp.body.doc.errorMessage)
    /\ (/\ AnsweredOne(PostOperations)
        /\ resp.code >= 200 /\ resp.code < 300
        /\ JsonBody
        /\ TopErrorMessage # JNull)
       => result = Raise("Exception", PyStr(TopErrorMessage.s))

\* C16 witness: get_channel returned a document whose errorMessage is
\* "Database not available".
C16_Witness ==
    /\ AnsweredOne({"get_channel"})
    /\ resp.code = 200
    /\ JsonBody
    /\ TopErrorMessage = JString("Database not available")
    /\ result.kind = "return"
    /\ result.value.errorMessage = PyStr("Database not available")

\* a request has been built for the operation in progress
Sent == pc \in {"sent", "responded", "done"} /\ req # NoReq

\* clients for the same server with other credentials
OtherClients ==
    {AdminClient__init__("archiver", server_port, c[1], c[2]) :
        c \in {<<(<<114, 111, 111, 116>>), (<<>>)>>,
               <<(<<97, 100, 109, 105, 110>>), (<<120>>)>>}}

\* C17: a request has an Authorization header exactly when
\* import_server_configuration or run_archive_configuration_commands built
\* it; its value is the header made at construction, 'Basic ' and the
\* base64 of 'username:password'; the request of a GET operation is the
\* same for clients that differ in their credentials only.
C17_CredentialsOnPostOnly ==
    Sent =>
        /\ ("Authorization" \in DOMAIN req.headers)
               <=> (op.name \in PostOperations)
        /\ op.name \in PostOperations =>
              /\ req.headers["Authorization"] = self._auth_header
              /\ (/\ self._username = <<97, 100, 109, 105, 110>>
                  /\ self._password = <<112, 119>>)
                 => self._auth_header = "Basic YWRtaW46cHc="
        /\ op.name \in GetOperations =>
              \A other \in OtherClients :
                  /\ other._auth_header # self._auth_header
                  /\ OperationRequest(other, archive, files, op) = Return(req)

\* C17 witness: get_channel has built a request without Authorization on a
\* client that has credentials.
C17_Witness ==
    /\ Sent
    /\ op.name = "get_channel"
    /\ DOMAIN req.headers = {"Accept", "Accept-Encoding"}
    /\ self._auth_header = "Basic YWRtaW46cHc="

(***************************************************************************)
(* Vocabulary of the claim about concurrent calls                          *)
(***************************************************************************)
\* the URL of each call of the threads, as a client alone requests it
UrlAlone ==
    [name \in Operations |->
        CASE name = "run_archive_configuration_commands" ->
                "http://archiver:4812/admin/api/1.0/run-archive-configuration-commands"
          [] name = "import_server_configuration" ->
                "http://archiver:4812/admin/api/1.0/channels/by-server/srv-1/import"
          [] name = "get_cluster_status" ->
                "http://archiver:4812/admin/api/1.0/cluster-status/"
          [] name = "get_server_status" ->
                "http://archiver:4812/admin/api/1.0/server-status/this-server/"
          [] name = "get_channel" ->
                "http://archiver:4812/admin/api/1.0/channels/all/by-name/a~2Fb/"
          [] name = "list_all_channels" ->
                "http://archiver:4812/admin/api/1.0/channels/all/"
          [] name = "list_channels_for_server" ->
                "http://archiver:4812/admin/api/1.0/channels/by-server/srv-1/"
          [] name = "export_server_configuration" ->
                "http://archiver:4812/admin/api/1.0/channels/by-server/srv-1/export"
          [] name = "find_channels_by_pattern" ->
                "http://archiver:9812/archive-access/api/1.0/archive/1/channels-by-pattern/ch%2A"
          [] name = "find_channels_by_regexp" -> ""
          [] name = "get_samples" ->
                "http://archiver:9812/archive-access/api/1.0/archive/1/samples/ch1?start=0&end=1000&count=100"]

\* the request and the outcome of thread t are those of its own call
ThreadAsAlone(t) ==
    LET th == threads[t]
        post == th.op.name \in PostOperations
        message == IF "errorMessage" \in th.resp.body.doc.keys
                   THEN th.resp.body.doc.errorMessage ELSE JNull
    IN  /\ (th.pc # "idle" /\ th.req # NoReq) =>
              /\ th.req.url = UrlAlone[th.op.name]
              /\ th.req.method = IF post THEN "POST" ELSE "GET"
              /\ ("Authorization" \in DOMAIN th.req.headers) <=> post
              /\ post => th.req.headers["Authorization"] = "Basic YWRtaW46cHc="
              /\ th.op.name = "run_archive_configuration_commands" =>
                    /\ Len(th.req.data.commands) = Len(th.op.args.commands)
                    /\ \A k \in 1..Len(th.op.args.commands) :
                          SameDict(th.op.args.commands[k],
                                   th.req.data.commands[k])
        /\ (th.pc = "done" /\ th.resp.code # 0) =>
              /\ th.resp.code = 404 => th.result = RequestFailed(404)
              /\ th.resp.code = 200 =>
                    IF post /\ message # JNull
                    THEN th.result = Raise("Exception", PyStr(message.s))
                    ELSE th.result.kind = "return"
        /\ \A u \in Threads :
              (/\ threads[u].op.name = th.op.name
               /\ threads[u].pc \in {"sent", "responded", "done"}
               /\ th.pc \in {"sent", "responded", "done"})
              => /\ threads[u].req = th.req
                 /\ (/\ threads[u].pc = "done"
                     /\ th.pc = "done"
                     /\ threads[u].resp = th.resp)
                    => threads[u].result = th.result

ContentTypeError ==
    \/ ~resp.content_type.present
    \/ DeclaredType # "application/json"

\* a logical error: a top-level errorMessage in the answer to a POST operation
LogicalError ==
    op.name \in PostOperations /\ JsonBody /\ TopErrorMessage # JNull

\* every operation sends at most one request and a call with a request under
\* way ends; once the response is there the next step of the call is its
\* end, without another request
OneRequestThenEnds ==
    /\ [](nReq <= 1)
    /\ [][pc = "responded" => (pc' = "done" /\ nReq' = nReq /\ op' = op)]_vars
    /\ [][pc = "sent" => (pc' \in {"responded", "done"} /\ op' = op)]_vars
    /\ [](pc = "done" => result.kind \in {"return", "raise"})
    /\ (pc \in {"sent", "responded"}) ~> (pc = "done")

Base64Text(payload) ==
    CASE payload = <<60, 97, 47, 62>> -> "PGEvPg=="
      [] payload = <<60, 98, 47, 62>> -> "PGIvPg=="
      [] payload = <<60, 99, 47, 62>> -> "PGMvPg=="
      [] payload = <<255, 254>>       -> "//4="
      [] payload = <<>>               -> ""

\* a flag of the body: the caller's argument, or the default when omitted
Flag(argument, default) ==
    IF argument = Omitted THEN JBool(default) ELSE JBool(argument.i = 1)

ImportSent ==
    /\ op.name = "import_server_configuration"
    /\ pc \in {"sent", "responded", "done"}
    /\ req # NoReq

ChangeFlags ==
    [add_channels |-> "addChannels", remove_channels |-> "removeChannels",
     update_channels |-> "updateChannels"]

\* C21 as stated: when the caller passes none of add_channels,
\* remove_channels and update_channels the request has addChannels,
\* removeChannels and updateChannels all false, and one of them is true only
\* when the caller has passed True for at least one of the three.
C21_NoEffectsByDefault ==
    ImportSent =>
        /\ (\A p \in DOMAIN ChangeFlags : op.args[p] = Omitted) =>
              \A p \in DOMAIN ChangeFlags :
                  req.data[ChangeFlags[p]] = JBool(FALSE)
        /\ (\E p \in DOMAIN ChangeFlags :
                req.data[ChangeFlags[p]] = JBool(TRUE)) =>
              \E p \in DOMAIN ChangeFlags : op.args[p] = PyBool(TRUE)

\* the bytes of the configurationFile texts of the answers, as
\* base64.b64decode(text, validate=True) gives them
DecodedBytes ==
    [PGIvPg |-> <<60, 98, 47, 62>>, PGIvPh |-> <<60, 98, 47, 62>>,
     PGMvPg |-> <<60, 99, 47, 62>>]

AcceptedTexts ==
    [PGIvPg |-> "PGIvPg==", PGIvPh |-> "PGIvPh==", PGMvPg |-> "PGMvPg=="]

\* export_server_configuration ends on its response
ExportEnds ==
    /\ pc = "responded"
    /\ op.name = "export_server_configuration"
    /\ pc' = "done"

\* the answer to the export is a 2xx JSON document with a configurationFile
\* that base64 decoding accepts
ExportAnswerAccepted ==
    /\ resp.code >= 200 /\ resp.code < 300
    /\ JsonBody
    /\ "configurationFile" \in resp.body.doc.keys
    /\ \E k \in DOMAIN AcceptedTexts :
          resp.body.doc.rest.configurationFile = JString(AcceptedTexts[k])

ExportAnswerBytes ==
    LET k == CHOOSE k \in DOMAIN AcceptedTexts :
                 resp.body.doc.rest.configurationFile
                     = JString(AcceptedTexts[k])
    IN  DecodedBytes[k]

\* C22: export_server_configuration returns exactly when the answer is
\* accepted and the path, if given, can be written.  With no path it returns
\* the decoded bytes of configurationFile and leaves every file as it was;
\* with a path it returns None and that file, and no other, now holds
\* exactly those bytes.  When it fails (503, other status outside 2xx,
\* content-type error, ...) it raises and no file has changed.
C22_ExportReturnsOrWrites ==
    [][ExportEnds =>
        LET path == op.args.configuration_file IN
        /\ result'.kind \in {"return", "raise"}
        /\ (result'.kind = "return") <=>
              /\ ExportAnswerAccepted
              /\ path = Omitted \/ path.s \notin Unwritable
        /\ (result'.kind = "return" /\ path = Omitted) =>
              /\ result'.value = PyBytes(ExportAnswerBytes)
              /\ files' = files
        /\ (result'.kind = "return" /\ path # Omitted) =>
              /\ result'.value = PyNone
              /\ DOMAIN files' = DOMAIN files \cup {path.s}
              /\ files'[path.s] = ExportAnswerBytes
              /\ \A f \in DOMAIN files \ {path.s} : files'[f] = files[f]
        /\ (result'.kind = "raise") => files' = files
        /\ (~(resp.code >= 200 /\ resp.code < 300) \/ ContentTypeError) =>
              result'.kind = "raise"
    ]_vars

\* C22 witness: an export to the path out.xml has returned None and the file
\* holds the decoded bytes.
C22_Witness ==
    /\ Answered("export_server_configuration")
    /\ op.args.configuration_file = PyStr("out.xml")
    /\ result = Return(PyNone)
    /\ "out.xml" \in DOMAIN files
    /\ files["out.xml"] = <<60, 98, 47, 62>>

\* an export with no path has returned the bytes of its answer
ExportReturnedBytes ==
    /\ Answered("export_server_configuration")
    /\ op.args.configuration_file = Omitted
    /\ result.kind = "return"

\* the request of the import that is passed the bytes the export returned
ImportOfExported ==
    import_server_configuration_req(
        self, files,
        [server_id |-> op.args.server_id,
         configuration_file |-> result.value,
         add_channels |-> Omitted, remove_channels |-> Omitted,
         update_channels |-> Omitted, simulate |-> Omitted])

\* the configurationFile of the import is the text the server sent
SameTextSentBack ==
    /\ ImportOfExported.kind = "return"
    /\ ImportOfExported.value.data.configurationFile
           = resp.body.doc.rest.configurationFile

\* the base64 texts that an encoder writes: the unused bits of the last
\* character are zero
EncoderTexts == {"PGIvPg==", "PGMvPg=="}

\* C23 as stated: for every configurationFile text that the export accepts,
\* the import of the bytes it returned sends that same text.
C23_Original == ExportReturnedBytes => SameTextSentBack

\* C23: for every configurationFile text that is what a base64 encoder
\* writes, the import of the bytes the export returned sends that same text,
\* character for character; for an accepted text that no encoder writes the
\* import sends the encoder's text of the same bytes.
C23_RoundTrip ==
    ExportReturnedBytes =>
        IF resp.body.doc.rest.configurationFile.s \in EncoderTexts
        THEN SameTextSentBack
        ELSE /\ resp.body.doc.rest.configurationFile = JString("PGIvPh==")
             /\ ImportOfExported.kind = "return"
             /\ ImportOfExported.value.data.configurationFile
                    = JString("PGIvPg==")

\* C23 witness: the export returned the bytes of the text PGIvPg== and the
\* import of them sends PGIvPg==.
C23_Witness ==
    /\ ExportReturnedBytes
    /\ resp.body.doc.rest.configurationFile = JString("PGIvPg==")
    /\ result.value = PyBytes(<<60, 98, 47, 62>>)
    /\ ImportOfExported.value.data.configurationFile = JString("PGIvPg==")

\* the channel names of the calls, percent-encoded with no safe character
QuotedChannel(channel_name) ==
    CASE channel_name = <<99, 104, 49>> -> "ch1"
      [] channel_name = <<97, 32, 98>>  -> "a%20b"
      [] channel_name = <<97, 47, 98>>  -> "a%2Fb"

\* the times and counts of the calls in decimal
Decimal(n) ==
    CASE n = 0    -> "0"
      [] n = 100  -> "100"
      [] n = 1000 -> "1000"
      [] n = 2000 -> "2000"

GetSamplesSent ==
    /\ op.name = "get_samples"
    /\ pc \in {"sent", "responded", "done"}

C25_RegexpLikePattern ==
    (pc = "done" /\ op.name = "find_channels_by_regexp") =>
        /\ op.args.regular_expression = <<99, 104, 46, 42>>
        /\ nReq = 1
        /\ req.method = "GET"
        /\ req.url = "http://archiver:9812/archive-access/api/1.0"
                     \o "/archive/1/channels-by-regexp/ch.%2A"
        /\ (resp.code >= 200 /\ resp.code < 300 /\ JsonBody) =>
              result.kind = "return"

\* the last builder call raised
Failed == call.method \in Methods /\ call.outcome = "raise"

\* C26: a builder call that raises leaves the batch as it was, entry for
\* entry and of the same length; no entry of the batch is a partial command
\* (one holding a failed conversion); and the call after a failed one, when
\* it succeeds, appends its command after the entries that were there.
C26_FailedCallLeavesBatch ==
    /\ [](\A n \in 1..Len(batch) :
            \A key \in DOMAIN batch[n] : ~IsRaised(batch[n][key]))
    /\ [][call'.outcome = "raise" =>
              /\ batch' = batch
              /\ Len(batch') = Len(batch)]_builderVars
    /\ [][(call.outcome = "raise" /\ call'.outcome = "ok") =>
              /\ Len(batch') = Len(batch) + 1
              /\ SubSeq(batch', 1, Len(batch)) = batch
              /\ batch'[Len(batch')].commandType = PyStr(call'.method)
         ]_builderVars

\* C26 witness: after one command was appended, a call of update_channel
\* given a dict for options has raised and the batch still holds that one
\* command.
C26_Witness ==
    /\ Failed
    /\ call.method = "update_channel"
    /\ call.args.options.t = "dict"
    /\ nCalls = 2
    /\ Len(batch) = 1
    /\ batch[1].commandType = PyStr("add_channel")

====
